---- MODULE Spec2Model ----
(***************************************************************************)
(* A model of the code review assistant and of the security scanner:       *)
(* the pattern-based analyzer, the LLM-response parser, the aggregator,    *)
(* the report formatter, and the commands that drive them.                 *)
(*                                                                         *)
(* Text is modelled as a sequence of lexemes.  A lexeme is either a single *)
(* character ("=", "'", "}", "\n") or an unbroken chunk of word characters *)
(* ("password", "console.log") that no pattern of the program splits;      *)
(* "x{120}" is a run of 120 characters x.                                  *)
(***************************************************************************)
EXTENDS Integers, Sequences, FiniteSets, TLC

VARIABLES
    file,           \* analyzer harness: the ChangedFile handed to the analyzer
    analysis,       \* analyzer harness: the review returned, or NotYet
    reviews,        \* the {filename, analysis, changes} pushed to reviews so far
    overallReview,  \* the aggregate of the reviews, or NotYet
    options,        \* the options of the command
    formatted,      \* the text formatter.format returned, or Undefined
    pc,             \* the position of the pr command's action
    apiKey,         \* ClaudeAnalyzer.apiKey is set
    files,          \* the files getPullRequestFiles returned
    llmCalls,       \* the files callClaudeAPI was called for, with the outcome
    warnings,       \* the files console.warn reported a failed LLM call for
    posted,         \* the review handed to pulls.createReview, or NotYet
    exitCode,       \* [code |-> the exit code of the process], or NotYet while it runs
    command,        \* the command of the run
    calls,          \* the calls made to the hosted-repo client, git and the analyzer
    diffOutput,     \* local command: the text git diff returned, or Undefined
    paths,          \* scan command: the paths still to visit
    filesScanned,   \* scan command: the paths of the files read
    allIssues,      \* scan command: the findings of the files read
    filteredIssues, \* scan command: the findings reported, or NotYet
    printed,        \* scan command: the counts printed, or NotYet
    savedReport,    \* scan command: the object written to --output, or NotYet
    lastIndexOf       \* scan command: the lastIndexOf of the pattern of each rule

analyzerVars == <<file, analysis>>
reportVars == <<reviews, overallReview, options, formatted>>
prVars == <<pc, apiKey, files, llmCalls, warnings, posted, exitCode, command, calls, diffOutput>>
scanVars == <<paths, filesScanned, allIssues, filteredIssues, printed, savedReport, lastIndexOf>>
vars == <<file, analysis, reviews, overallReview, options, formatted,
          pc, apiKey, files, llmCalls, warnings, posted, exitCode, command, calls, diffOutput,
          paths, filesScanned, allIssues, filteredIssues, printed, savedReport, lastIndexOf>>

(***************************************************************************)
(* JavaScript values that are not text.                                    *)
(***************************************************************************)
\* undefined where a string is expected: no string of the model holds this lexeme
Undefined == <<"(undefined)">>
\* no value yet
NotYet == [js |-> "not-yet"]

(***************************************************************************)
(* Bounds of the model.                                                    *)
(***************************************************************************)
MaxLines == 2

(***************************************************************************)
(* Strings.                                                                *)
(***************************************************************************)
\* \s, and what trim() strips
Whitespace == {" ", "\t", "\n"}
Quotes == {"'", "\""}

\* String.prototype.toLowerCase / the i flag, on the lexemes that have case.
LowerOf ==
    ("PASSWORD" :> "password") @@ ("Key" :> "key") @@ ("KEY" :> "key")
    @@ ("API" :> "api") @@ ("Secret" :> "secret") @@ ("TODO" :> "todo")
    @@ ("J" :> "j") @@ ("S" :> "s") @@ ("O" :> "o") @@ ("N" :> "n")
    @@ ("T" :> "t") @@ ("E" :> "e") @@ ("X" :> "x") @@ ("M" :> "m")
    @@ ("Issue" :> "issue") @@ ("Bug" :> "bug") @@ ("Security" :> "security")
    @@ ("Summary" :> "summary") @@ ("Suggestion" :> "suggestion")
    @@ ("RSA" :> "rsa") @@ ("PRIVATE" :> "private") @@ ("-----BEGIN" :> "-----begin")
    @@ ("KEY-----" :> "key-----") @@ ("AKIA" :> "akia") @@ ("ASIA" :> "asia")
    @@ ("A" :> "a") @@ ("MD5" :> "md5") @@ ("HIGH" :> "high") @@ ("High" :> "high")
    @@ ("CRITICAL" :> "critical") @@ ("MEDIUM" :> "medium") @@ ("LOW" :> "low")
    @@ ("rejectUnauthorized" :> "rejectunauthorized") @@ (".innerHTML" :> ".innerhtml")
    @@ ("Debug" :> "debug")

toLowerCaseLex(c) == IF c \in DOMAIN LowerOf THEN LowerOf[c] ELSE c

toLowerCase(s) == [i \in 1..Len(s) |-> toLowerCaseLex(s[i])]

\* The number of characters of a chunk; a lexeme not listed is one character.
ChunkLen ==
    ("password" :> 8) @@ ("PASSWORD" :> 8) @@ ("api" :> 3) @@ ("key" :> 3)
    @@ ("Key" :> 3) @@ ("secret" :> 6) @@ ("const" :> 5) @@ ("abc" :> 3)
    @@ ("sk-1234567890" :> 13) @@ ("process.env.PW" :> 14)
    @@ ("console.log" :> 11) @@ ("console.debug" :> 13) @@ ("TODO" :> 4)
    @@ ("FIXME" :> 5) @@ ("HACK" :> 4) @@ ("catch" :> 5) @@ ("else" :> 4)
    @@ (".then" :> 5) @@ ("await" :> 5) @@ ("var" :> 3) @@ ("fix" :> 3)
    @@ ("//" :> 2) @@ ("x{120}" :> 120) @@ ("y{25}" :> 25) @@ ("x{100}" :> 100) @@ ("x{73}" :> 73)
    @@ ("-----BEGIN" :> 10) @@ ("RSA" :> 3) @@ ("PRIVATE" :> 7) @@ ("KEY-----" :> 8)
    @@ ("AKIA" :> 4) @@ ("k{16}" :> 16) @@ ("k{36}" :> 36) @@ ("k{8}" :> 8) @@ ("ghp" :> 3)
    @@ ("token" :> 5) @@ ("aws" :> 3) @@ ("eval" :> 4) @@ ("el" :> 2) @@ (".innerHTML" :> 10)
    @@ ("md5" :> 3) @@ ("exec" :> 4) @@ ("cmd" :> 3) @@ ("postgres" :> 8) @@ ("debug" :> 5)
    @@ ("true" :> 4) @@ ("false" :> 5) @@ ("rejectUnauthorized" :> 18)

LexLen(c) == IF c \in DOMAIN ChunkLen THEN ChunkLen[c] ELSE 1

RECURSIVE StrLen(_)
\* String.prototype.length
StrLen(s) == IF s = <<>> THEN 0 ELSE LexLen(Head(s)) + StrLen(Tail(s))

\* String.prototype.includes for a one-lexeme needle
includes(s, c) == \E i \in 1..Len(s) : s[i] = c

RECURSIVE TrimStart(_)
TrimStart(s) ==
    IF s # <<>> /\ Head(s) \in Whitespace THEN TrimStart(Tail(s)) ELSE s

RECURSIVE TrimEnd(_)
TrimEnd(s) ==
    IF s # <<>> /\ s[Len(s)] \in Whitespace
    THEN TrimEnd(SubSeq(s, 1, Len(s) - 1)) ELSE s

\* String.prototype.trim
trim(s) == TrimEnd(TrimStart(s))

RECURSIVE SplitAcc(_, _, _, _)
SplitAcc(s, sep, cur, acc) ==
    IF s = <<>> THEN Append(acc, cur)
    ELSE IF Head(s) = sep THEN SplitAcc(Tail(s), sep, <<>>, Append(acc, cur))
    ELSE SplitAcc(Tail(s), sep, Append(cur, Head(s)), acc)

\* String.prototype.split on a one-character separator: "a\n" gives two
\* pieces, and the empty string gives one empty piece.
split(s, sep) == SplitAcc(s, sep, <<>>, <<>>)

RECURSIVE join(_, _)
\* Array.prototype.join
join(ls, sep) ==
    IF ls = <<>> THEN <<>>
    ELSE IF Len(ls) = 1 THEN ls[1]
    ELSE ls[1] \o <<sep>> \o join(Tail(ls), sep)

Digit == <<"0", "1", "2", "3", "4", "5", "6", "7", "8", "9">>

RECURSIVE NumStr(_)
\* the template-literal conversion of a non-negative integer
NumStr(n) == IF n < 10 THEN <<Digit[n + 1]>> ELSE Append(NumStr(n \div 10), Digit[(n % 10) + 1])

(***************************************************************************)
(* Regular expressions.  Ends(re, s, i, ci) is the set of positions j such *)
(* that re matches s[i..j-1]; ci is the i flag.                            *)
(***************************************************************************)
Cls(S) == [k |-> "cls", set |-> S]
NCls(S) == [k |-> "ncls", set |-> S]
Lit(c) == Cls({c})
Cat(ps) == [k |-> "cat", parts |-> ps]
Star(r) == [k |-> "star", r |-> r]
Plus(r) == Cat(<<r, Star(r)>>)
Opt(r) == [k |-> "alt", parts |-> <<Cat(<<>>), r>>]
WsStar == Star(Cls(Whitespace))
WsPlus == Plus(Cls(Whitespace))
\* [set]{min,}: a run of lexemes of the set that holds at least min characters
AtLeast(S, min) == [k |-> "atleast", set |-> S, min |-> min]

RECURSIVE Ends(_, _, _, _), EndsCat(_, _, _, _, _), EndsStar(_, _, _, _)
Ends(re, s, i, ci) ==
    CASE re.k = "cls" ->
           IF i <= Len(s) /\ (IF ci THEN toLowerCaseLex(s[i]) ELSE s[i]) \in re.set
           THEN {i + 1} ELSE {}
      [] re.k = "ncls" ->
           IF i <= Len(s) /\ (IF ci THEN toLowerCaseLex(s[i]) ELSE s[i]) \notin re.set
           THEN {i + 1} ELSE {}
      [] re.k = "cat" -> EndsCat(re.parts, 1, s, {i}, ci)
      [] re.k = "alt" -> UNION {Ends(re.parts[n], s, i, ci) : n \in 1..Len(re.parts)}
      [] re.k = "star" -> EndsStar(re.r, s, {i}, ci)
      [] re.k = "atleast" ->
           {j \in (i + 1)..(Len(s) + 1) :
               /\ \A n \in i..(j - 1) : (IF ci THEN toLowerCaseLex(s[n]) ELSE s[n]) \in re.set
               /\ StrLen(SubSeq(s, i, j - 1)) >= re.min}
      \* the lexemes listed are the characters that are no word characters; every
      \* other lexeme is a chunk that ends with a word character
      \* \b before a word character
      [] re.k = "wordstart" ->
            IF i = 1 \/ s[i - 1] \in Whitespace \cup Quotes
                        \cup {"=", "(", ")", "{", "}", ";", ":", "/", "//", "+", "-", ".", ",",
                              "@", "[", "]", "|", "#", "*"}
            THEN {i} ELSE {}

EndsCat(parts, n, s, from, ci) ==
    IF n > Len(parts) \/ from = {} THEN from
    ELSE EndsCat(parts, n + 1, s, UNION {Ends(parts[n], s, i, ci) : i \in from}, ci)

EndsStar(r, s, reached, ci) ==
    LET more == UNION {Ends(r, s, i, ci) : i \in reached} \ reached
    IN  IF more = {} THEN reached ELSE EndsStar(r, s, reached \cup more, ci)

\* RegExp.prototype.test / a truthy String.prototype.match, without the g flag
test(re, s, ci) == \E i \in 1..(Len(s) + 1) : Ends(re, s, i, ci) # {}

(***************************************************************************)
(* ClaudeAnalyzer: the pattern-based path.                                 *)
(***************************************************************************)
\* /password\s*=\s*['"][^'"]+['"]/i
RePassword ==
    Cat(<<Lit("password"), WsStar, Lit("="), WsStar, Cls(Quotes), Plus(NCls(Quotes)), Cls(Quotes)>>)

\* /api[_-]?key\s*=\s*['"][^'"]+['"]/i
ReApiKey ==
    Cat(<<Lit("api"), Opt(Cls({"_", "-"})), Lit("key"), WsStar, Lit("="), WsStar,
          Cls(Quotes), Plus(NCls(Quotes)), Cls(Quotes)>>)

\* /secret\s*=\s*['"][^'"]+['"]/i
ReSecret ==
    Cat(<<Lit("secret"), WsStar, Lit("="), WsStar, Cls(Quotes), Plus(NCls(Quotes)), Cls(Quotes)>>)

LongLine == 120

MsgDebug == <<"Debug statement found. Consider removing before merging.">>
MsgCredential == <<"Potential hardcoded credential detected. Use environment variables instead.">>
MsgNoDiff == <<"No diff available for analysis">>

\* the console.log / console.debug check
DebugStatement(line) == includes(line, "console.log") \/ includes(line, "console.debug")

\* the hardcoded-credential check: one condition over the three shapes
HardcodedCredential(line) ==
    test(RePassword, line, TRUE) \/ test(ReApiKey, line, TRUE) \/ test(ReSecret, line, TRUE)

\* a variant of LineIssues: one issue for each credential shape that matches
LineIssuesPerShape(lines, n) ==
    (IF DebugStatement(lines[n])
     THEN <<[type |-> "style", line |-> n, severity |-> "low", description |-> MsgDebug]>>
     ELSE <<>>)
    \o
    (IF test(RePassword, lines[n], TRUE)
     THEN <<[type |-> "security", line |-> n, severity |-> "high", description |-> MsgCredential]>>
     ELSE <<>>)
    \o
    (IF test(ReApiKey, lines[n], TRUE)
     THEN <<[type |-> "security", line |-> n, severity |-> "high", description |-> MsgCredential]>>
     ELSE <<>>)
    \o
    (IF test(ReSecret, lines[n], TRUE)
     THEN <<[type |-> "security", line |-> n, severity |-> "high", description |-> MsgCredential]>>
     ELSE <<>>)

\* a variant of LineIssues: the debug statement is not reported as an issue
LineIssuesNoDebug(lines, n) ==
    IF HardcodedCredential(lines[n])
    THEN <<[type |-> "security", line |-> n, severity |-> "high", description |-> MsgCredential]>>
    ELSE <<>>

\* what one pass of the loop body pushes to issues for line n (1-based)
LineIssues(lines, n) ==
    (IF DebugStatement(lines[n])
     THEN <<[type |-> "style", line |-> n, severity |-> "low", description |-> MsgDebug]>>
     ELSE <<>>)
    \o
    (IF HardcodedCredential(lines[n])
     THEN <<[type |-> "security", line |-> n, severity |-> "high", description |-> MsgCredential]>>
     ELSE <<>>)

\* a variant of OptionalIncludes without the optional chaining: reading
\* .includes of undefined raises a TypeError
PlainIncludes(v, c) ==
    IF v = Undefined THEN [threw |-> "TypeError"] ELSE [value |-> includes(v, c)]

\* v?.includes(c): undefined, which is falsy, when v is undefined
OptionalIncludes(v, c) ==
    IF v = Undefined THEN [value |-> FALSE] ELSE [value |-> includes(v, c)]

\* a variant of LineSuggestions that knows the long-line rule only and takes
\* a line of 120 characters for a long one
LineSuggestionsFrom120(lines, n) ==
    IF StrLen(lines[n]) >= LongLine
    THEN <<[type |-> "style", line |-> n,
            description |-> <<"Line exceeds 120 characters (">> \o NumStr(StrLen(lines[n]))
                            \o <<" chars). Consider breaking it up.">>]>>
    ELSE <<>>

\* what one pass of the loop body pushes to suggestions for line n (1-based);
\* an element with a field threw stands for the error the pass raised
LineSuggestions(lines, n) ==
    (IF includes(lines[n], "TODO") \/ includes(lines[n], "FIXME") \/ includes(lines[n], "HACK")
     THEN <<[type |-> "maintenance", line |-> n,
             description |-> <<"Found ", "\"">> \o trim(lines[n])
                             \o <<"\"", " ", "-", " ensure this is tracked in your issue tracker.">>]>>
     ELSE <<>>)
    \o
    \* line.includes('catch') && lines[i + 1]?.includes('}'), where lines[i + 1]
    \* is undefined past the last line
    (IF includes(lines[n], "catch")
     THEN LET next == OptionalIncludes(IF n + 1 <= Len(lines) THEN lines[n + 1] ELSE Undefined,
                                       "}")
          IN  IF "threw" \in DOMAIN next THEN <<next>>
              ELSE IF next.value
              THEN <<[type |-> "best-practice", line |-> n,
                      description |-> <<"Empty catch block detected. Consider at least logging the error.">>]>>
              ELSE <<>>
     ELSE <<>>)
    \o
    \* /\.then\s*\(/
    (IF test(Cat(<<Lit(".then"), WsStar, Lit("(")>>), lines[n], FALSE) /\ ~includes(lines[n], "await")
     THEN <<[type |-> "potential-bug", line |-> n, description |-> <<"Promise chain detected. Consider using async/await for better readability.">>]>>
     ELSE <<>>)
    \o
    (IF StrLen(lines[n]) > LongLine
     THEN <<[type |-> "style", line |-> n,
             description |-> <<"Line exceeds 120 characters (">> \o NumStr(StrLen(lines[n]))
                             \o <<" chars). Consider breaking it up.">>]>>
     ELSE <<>>)

RECURSIVE LoopIssues(_, _)
LoopIssues(lines, n) ==
    IF n > Len(lines) THEN <<>> ELSE LineIssues(lines, n) \o LoopIssues(lines, n + 1)

RECURSIVE LoopSuggestions(_, _)
LoopSuggestions(lines, n) ==
    IF n > Len(lines) THEN <<>> ELSE LineSuggestions(lines, n) \o LoopSuggestions(lines, n + 1)

\* the check by file extension, applied once to the whole patch
ExtensionSuggestions(filename, patch) ==
    LET pieces == split(filename, ".")
        ext == pieces[Len(pieces)]
    IN  IF (ext = <<"js">> \/ ext = <<"ts">>) /\ \E i \in 1..(Len(patch) - 1) : SubSeq(patch, i, i + 1) = <<"var", " ">>
        THEN <<[type |-> "style",
               description |-> <<"Use ", "\"", "let", "\"", " or ", "\"", "const", "\"", " instead of ", "\"", "var", "\"", " for better scoping.">>]>>
        ELSE <<>>

\* a variant of generateSummary that reports every issue as high-priority
generateSummaryEveryIssue(issues, suggestions) ==
    IF Len(issues) = 0 /\ Len(suggestions) = 0 THEN <<"Code looks good! No major issues detected.">>
    ELSE IF \E n \in 1..Len(issues) : issues[n].severity = "high"
         THEN <<"Found ">> \o NumStr(Len(issues))
              \o <<" high", "-", "priority issue(s) that should be addressed.">>
         ELSE <<"Found ">> \o NumStr(Len(issues) + Len(suggestions))
              \o <<" item(s) to review: ">> \o NumStr(Len(issues))
              \o <<" issue(s), ">> \o NumStr(Len(suggestions)) \o <<" suggestion(s).">>

generateSummary(issues, suggestions) ==
    IF Len(issues) = 0 /\ Len(suggestions) = 0 THEN <<"Code looks good! No major issues detected.">>
    ELSE LET highIssues == SelectSeq(issues, LAMBDA i : "severity" \in DOMAIN i /\ i.severity = "high")
         IN  IF Len(highIssues) > 0
             THEN <<"Found ">> \o NumStr(Len(highIssues))
                  \o <<" high", "-", "priority issue(s) that should be addressed.">>
             ELSE <<"Found ">> \o NumStr(Len(issues) + Len(suggestions))
                  \o <<" item(s) to review: ">> \o NumStr(Len(issues))
                  \o <<" issue(s), ">> \o NumStr(Len(suggestions)) \o <<" suggestion(s).">>

\* a variant of StaticRating: only a high or critical issue needs attention
StaticRatingHighOnly(issues) ==
    IF \E n \in 1..Len(issues) : issues[n].severity \in {"high", "critical"}
    THEN "needs-attention" ELSE "good"

\* the rating of a review of a file that has a patch
StaticRating(issues) == IF Len(issues) > 0 THEN "needs-attention" ELSE "good"

\* a variant of NoPatch that takes the empty string for a patch
NoPatchOnlyAbsent(f) == f.patch = Undefined

\* !patch: an absent patch or the empty string
NoPatch(f) == f.patch = Undefined \/ f.patch = <<>>

analyzeWithStaticAnalysis(f) ==
    IF NoPatch(f)
    THEN [summary |-> MsgNoDiff, issues |-> <<>>, suggestions |-> <<>>, rating |-> "neutral"]
    ELSE LET lines == split(f.patch, "\n")
             issues == LoopIssues(lines, 1)
             suggestions == LoopSuggestions(lines, 1) \o ExtensionSuggestions(f.filename, f.patch)
         IN  \* an error raised in the loop leaves the function: nothing catches it
             IF \E k \in 1..Len(suggestions) : "threw" \in DOMAIN suggestions[k]
             THEN [threw |-> "TypeError"]
             ELSE [summary |-> generateSummary(issues, suggestions),
                   issues |-> issues,
                   suggestions |-> suggestions,
                   security |-> SelectSeq(issues, LAMBDA i : i.type = "security"),
                   performance |-> <<>>,
                   rating |-> StaticRating(issues)]

(***************************************************************************)
(* ClaudeAnalyzer: the LLM-assisted path, parsing the response text.       *)
(***************************************************************************)
Min(S) == CHOOSE x \in S : \A y \in S : x <= y
Max(S) == CHOOSE x \in S : \A y \in S : x >= y

Digits == {"0", "1", "2", "3", "4", "5", "6", "7", "8", "9"}

\* the keywords a chunk contains as substrings, where it is not the keyword itself
KeywordsInChunk ==
    ("authentication" :> {"auth"}) @@ ("debugging" :> {"bug"}) @@ ("insecure" :> {})
    @@ ("secrets" :> {"secret"}) @@ ("slower" :> {"slow"})

\* keywords.some(kw => text.toLowerCase().includes(kw))
SomeKeyword(text, kws) ==
    \E n \in 1..Len(text) : \E kw \in kws :
        LET l == toLowerCaseLex(text[n])
        IN  IF l \in DOMAIN KeywordsInChunk THEN kw \in KeywordsInChunk[l] ELSE l = kw

detectSeverity(text) ==
    IF SomeKeyword(text, {"critical", "danger", "bug", "vulnerability", "security"}) THEN "high"
    ELSE IF SomeKeyword(text, {"concern", "warning", "issue"}) THEN "medium"
    ELSE "low"

\* the position after the run of characters . matches, from position b
EndOfLine(s, b) == Min({j \in b..(Len(s) + 1) : j = Len(s) + 1 \/ s[j] = "\n"})

\* One match of  <prefix>\s*(?:<kws>):\s*(.+)  starting at position i, flag i:
\* [end, start and text of the (.+) group], or none.  \s* is greedy, so the
\* group starts after the longest run of white space that leaves it a character.
NoMatch == [found |-> FALSE]
LabelledAt(prefix, kws, s, i) ==
    LET afterColon == Ends(Cat(<<prefix, Star(Cls(Whitespace)), Cls(kws), Lit(":")>>), s, i, TRUE)
    IN  IF afterColon = {} THEN NoMatch
        ELSE LET q == Max(afterColon)
                 starts == {b \in Ends(Star(Cls(Whitespace)), s, q, TRUE) : b <= Len(s) /\ s[b] # "\n"}
             IN  IF starts = {} THEN NoMatch
                 ELSE LET b == Max(starts)
                          e == EndOfLine(s, b)
                      IN  [found |-> TRUE, index |-> i, end |-> e, text |-> SubSeq(s, b, e - 1)]

RECURSIVE ExecAll(_, _, _, _)
\* while ((match = pattern.exec(content)) !== null): the matches of a g-flag
\* pattern, left to right, each search starting where the last match ended
ExecAll(prefix, kws, s, lastIndex) ==
    LET ThenFrom(m) == <<m>> \o ExecAll(prefix, kws, s, m.end)
        FirstOf(hits) == IF hits = {} THEN <<>>
                         ELSE ThenFrom(LabelledAt(prefix, kws, s, Min(hits)))
    IN  FirstOf({i \in lastIndex..Len(s) : LabelledAt(prefix, kws, s, i).found})

\* match[1] of the numbered patterns: the digits before the dot
NumberOf(s, m) ==
    LET dot == Min({j \in m.index..Len(s) : s[j] = "."})
    IN  SubSeq(s, m.index, dot - 1)

\* the class [-•*]; the bullet character is spelled "(bullet)"
ReBullet == Cls({"-", "(bullet)", "*"})
ReNumber == Cat(<<Plus(Cls(Digits)), Lit(".")>>)

extractIssues(content) ==
    LET kws == {"bug", "issue", "concern"}
        Issue(text) == [type |-> "issue", severity |-> detectSeverity(text), description |-> text]
        Bulleted(ms) == [n \in 1..Len(ms) |-> Issue(ms[n].text)]
        Numbered(ms) == [n \in 1..Len(ms) |-> Issue(NumberOf(content, ms[n]))]
    IN  Bulleted(ExecAll(ReBullet, kws, content, 1)) \o Numbered(ExecAll(ReNumber, kws, content, 1))

extractSuggestions(content) ==
    LET Bulleted(ms) == [n \in 1..Len(ms) |-> [type |-> "suggestion", description |-> ms[n].text]]
        Numbered(ms) == [n \in 1..Len(ms) |->
                            [type |-> "suggestion", description |-> NumberOf(content, ms[n])]]
    IN  Bulleted(ExecAll(ReBullet, {"suggestion", "recommendation", "consider"}, content, 1))
        \o Numbered(ExecAll(ReNumber, {"suggestion", "recommendation"}, content, 1))

\* the lines of the content that hold one of the keywords, trimmed
KeywordLines(content, kws) ==
    LET lines == split(content, "\n")
    IN  SelectSeq(lines, LAMBDA line : SomeKeyword(line, kws))

extractSecurityIssues(content) ==
    LET securityKeywords == {"security", "vulnerability", "injection", "xss", "csrf", "auth",
                             "credential", "secret"}
        hit == KeywordLines(content, securityKeywords)
    IN  [n \in 1..Len(hit) |-> [description |-> trim(hit[n]), severity |-> "high"]]

extractPerformanceIssues(content) ==
    LET perfKeywords == {"performance", "memory", "leak", "optimization", "inefficient", "slow"}
        hit == KeywordLines(content, perfKeywords)
    IN  [n \in 1..Len(hit) |-> [description |-> trim(hit[n])]]

\* summaryMatch?.[1]?.trim() of /summary:?\s*(.+?)(?:\n\n|$)/i: the lazy group
\* ends at the first position followed by a blank line or the end of the text
SummaryAt(s, i) ==
    IF ~(i <= Len(s) /\ toLowerCaseLex(s[i]) = "summary") THEN NoMatch
    ELSE LET Closes(e) == e = Len(s) + 1 \/ (e + 1 <= Len(s) /\ s[e] = "\n" /\ s[e + 1] = "\n")
             Group(b) == {e \in (b + 1)..EndOfLine(s, b) : Closes(e)}
             afterColon == IF i + 1 <= Len(s) /\ s[i + 1] = ":" THEN <<i + 2, i + 1>> ELSE <<i + 1>>
             Starts(a) == {b \in Ends(Star(Cls(Whitespace)), s, a, TRUE) :
                              b <= Len(s) /\ s[b] # "\n" /\ Group(b) # {}}
             tried == SelectSeq(afterColon, LAMBDA a : Starts(a) # {})
         IN  IF tried = <<>> THEN NoMatch
             ELSE LET b == Max(Starts(tried[1]))
                  IN  [found |-> TRUE, text |-> SubSeq(s, b, Min(Group(b)) - 1)]

extractSections(response) ==
    LET hits == {i \in 1..Len(response) : SummaryAt(response, i).found}
    IN  [summary |-> IF hits = {} THEN Undefined ELSE trim(SummaryAt(response, Min(hits)).text),
         content |-> response]

\* "Simple rating based on presence of issues"
calculateRating(sections) == "good"

parseClaudeResponse(response, f) ==
    LET Review(sections, content) ==
            [summary |-> IF sections.summary = Undefined \/ sections.summary = <<>>
                         THEN <<"Code reviewed by Claude">> ELSE sections.summary,
             issues |-> extractIssues(content),
             suggestions |-> extractSuggestions(content),
             security |-> extractSecurityIssues(content),
             performance |-> extractPerformanceIssues(content),
             rating |-> calculateRating(sections),
             rawResponse |-> response]
        \* sections.content || response
        Parsed(sections) ==
            Review(sections, IF sections.content # <<>> THEN sections.content ELSE response)
    IN  Parsed(extractSections(response))

\* The outcome of callClaudeAPI: the text of the response, or a failure (a
\* response that is not ok, or a body without text)
Failure == [ok |-> FALSE]

\* a variant of analyzeWithClaude whose catch gives the review of an absent patch
analyzeWithClaudeNoFallback(f, outcome) ==
    IF outcome.ok THEN parseClaudeResponse(outcome.text, f)
    ELSE [summary |-> MsgNoDiff, issues |-> <<>>, suggestions |-> <<>>, rating |-> "neutral"]

\* try { parse the response } catch { warn; static analysis }
analyzeWithClaude(f, outcome) ==
    IF outcome.ok THEN parseClaudeResponse(outcome.text, f) ELSE analyzeWithStaticAnalysis(f)

\* key: this.apiKey is set
analyzeCode(f, key, outcome) ==
    IF key THEN analyzeWithClaude(f, outcome) ELSE analyzeWithStaticAnalysis(f)

(***************************************************************************)
(* ClaudeAnalyzer: the aggregator.                                         *)
(***************************************************************************)
RECURSIVE Sum(_)
\* reviews.reduce((sum, r) => sum + ..., 0), over the numbers already taken
Sum(ns) == IF ns = <<>> THEN 0 ELSE Head(ns) + Sum(Tail(ns))

\* a variant of LengthOrZero that counts a non-empty field as one finding
LengthOrZeroAtMostOne(a, field) == IF field \in DOMAIN a /\ a[field] # <<>> THEN 1 ELSE 0

\* r.analysis.<field>?.length || 0
LengthOrZero(a, field) == IF field \in DOMAIN a THEN Len(a[field]) ELSE 0

\* a variant of Total that looks at the first review only
TotalOfFirst(revs, field) ==
    IF revs = <<>> THEN 0 ELSE LengthOrZero(revs[1].analysis, field)

Total(revs, field) == Sum([n \in 1..Len(revs) |-> LengthOrZero(revs[n].analysis, field)])

RECURSIVE ConcatRange(_, _, _)
\* ss[lo] \o ... \o ss[hi], by halves
ConcatRange(ss, lo, hi) ==
    IF lo > hi THEN <<>>
    ELSE IF lo = hi THEN ss[lo]
    ELSE LET mid == (lo + hi) \div 2
         IN  ConcatRange(ss, lo, mid) \o ConcatRange(ss, mid + 1, hi)

\* the concatenation of a sequence of strings
Concat(ss) == ConcatRange(ss, 1, Len(ss))

Bold(text) == <<"*", "*">> \o text \o <<"*", "*">>
Bullet(label, value) == <<"-", " ">> \o Bold(label) \o <<":", " ">> \o value \o <<"\n">>

generateOverallReview(prDetails, revs) ==
    LET \* the "Issues by File" entry of one review; nothing for a review without issues
        IssuesOfFile(review) ==
            IF LengthOrZero(review.analysis, "issues") > 0
            THEN <<"\n">> \o Bold(review.filename) \o <<"\n">>
                 \o Concat([k \in 1..Len(review.analysis.issues) |->
                               <<"-", " ">> \o review.analysis.issues[k].description \o <<"\n">>])
            ELSE <<>>
        totalFiles == Len(revs)
        totalIssues == Total(revs, "issues")
        totalSuggestions == Total(revs, "suggestions")
        securityIssues == Total(revs, "security")
        reviewBody ==
            <<"#", "#", " ", "Code Review Summary", "\n", "\n">>
            \o <<"Analyzed ">> \o NumStr(totalFiles)
            \o <<" file(s) with Claude Code Review Assistant.", "\n", "\n">>
            \o <<"#", "#", "#", " ", "Overview", "\n">>
            \o Bullet(<<"Files Changed">>, NumStr(totalFiles))
            \o Bullet(<<"Issues Found">>, NumStr(totalIssues))
            \o Bullet(<<"Suggestions">>, NumStr(totalSuggestions))
            \o Bullet(<<"Security Concerns">>, NumStr(securityIssues)) \o <<"\n">>
            \o (IF prDetails # [none |-> TRUE]
                THEN <<"#", "#", "#", " ", "Pull Request", "\n">>
                     \o Bullet(<<"Title">>, prDetails.title)
                     \o Bullet(<<"Author">>, prDetails.author)
                     \o Bullet(<<"Base">>, prDetails.baseBranch)
                     \o <<"\n">>
                ELSE <<>>)
            \o (IF totalIssues > 0 \/ securityIssues > 0
                THEN <<"#", "#", "#", " ", "Key Findings", "\n">>
                     \o (IF securityIssues > 0
                         THEN <<"(warning sign)", " ">> \o Bold(<<"Security">>) \o <<":", " Found ">>
                              \o NumStr(securityIssues)
                              \o <<" potential security concern(s). Please review carefully.",
                                    "\n", "\n">>
                         ELSE <<>>)
                     \o (IF totalIssues > 0
                         THEN <<"#", "#", "#", " ", "Issues by File", "\n">>
                              \o Concat([n \in 1..Len(revs) |-> IssuesOfFile(revs[n])])
                         ELSE <<>>)
                ELSE <<>>)
            \o <<"\n", "-", "-", "-", "\n">>
            \o <<"*", "Reviewed with Claude Code Review Assistant", "*">>
    IN  [summary |-> reviewBody,
         stats |-> [totalFiles |-> totalFiles, totalIssues |-> totalIssues,
                    totalSuggestions |-> totalSuggestions, securityIssues |-> securityIssues]]

generateLocalReview(revs, opts) ==
    LET totalFiles == Len(revs)
        totalIssues == Total(revs, "issues")
        totalSuggestions == Total(revs, "suggestions")
    IN  [summary |-> <<"#", "#", " ", "Local Code Review", "\n", "\n", "Analyzed ">>
                     \o NumStr(totalFiles) \o <<" file(s).", "\n", "\n", "Found ">>
                     \o NumStr(totalIssues) \o <<" issue(s) and ">> \o NumStr(totalSuggestions)
                     \o <<" suggestion(s).">>,
         stats |-> [totalFiles |-> totalFiles, totalIssues |-> totalIssues,
                    totalSuggestions |-> totalSuggestions],
         options |-> opts]

(***************************************************************************)
(* ReviewFormatter.                                                        *)
(***************************************************************************)
\* the positions where keep holds, in order
Positions(keep) == SelectSeq([j \in 1..Len(keep) |-> j], LAMBDA j : keep[j])

\* s without the positions where keep does not hold
Pick(s, keep) == LET idx == Positions(keep) IN [n \in 1..Len(idx) |-> s[idx[n]]]

\* the last position of the run of character c that holds position j
RunEnd(s, j, c) == Min({k \in j..Len(s) : k = Len(s) \/ s[k + 1] # c})

\* one match of /\[([^\]]+)\]\([^)]+\)/ starting at position i
LinkAt(s, i) ==
    IF ~(s[i] = "[" /\ \E j \in (i + 1)..Len(s) : s[j] = "]") THEN NoMatch
    ELSE LET j == Min({x \in (i + 1)..Len(s) : s[x] = "]"})
         IN  IF ~(j > i + 1 /\ j + 1 <= Len(s) /\ s[j + 1] = "("
                  /\ \E k \in (j + 2)..Len(s) : s[k] = ")") THEN NoMatch
             ELSE LET k == Min({x \in (j + 2)..Len(s) : s[x] = ")"})
                  IN  IF k > j + 2
                      THEN [found |-> TRUE, end |-> k, text |-> SubSeq(s, i + 1, j - 1)]
                      ELSE NoMatch

RECURSIVE StripLinksFrom(_, _)
\* .replace(/\[([^\]]+)\]\([^)]+\)/g, '$1'), from position from on
StripLinksFrom(s, from) ==
    LET hits == {i \in from..Len(s) : LinkAt(s, i).found}
    IN  IF hits = {} THEN SubSeq(s, from, Len(s))
        ELSE LET i == Min(hits)
                 m == LinkAt(s, i)
             IN  SubSeq(s, from, i - 1) \o m.text \o StripLinksFrom(s, m.end + 1)

\* the inline-code marker is spelled "(backtick)"
stripMarkdown(text) ==
    LET \* .replace(/#{1,6}\s/g, ''): up to six # before a white-space character go,
        \* with that character
        StripHeadings(s) ==
            LET Gone(j) ==
                    \/ /\ s[j] = "#"
                       /\ RunEnd(s, j, "#") - j + 1 <= 6
                       /\ RunEnd(s, j, "#") + 1 <= Len(s)
                       /\ s[RunEnd(s, j, "#") + 1] \in Whitespace
                    \/ s[j] \in Whitespace /\ j > 1 /\ s[j - 1] = "#"
            IN  Pick(s, [j \in 1..Len(s) |-> ~Gone(j)])

        \* .replace(/\*\*/g, ''): the pairs of a run of asterisks, taken from its left
        StripBold(s) ==
            LET Gone(j) ==
                    /\ s[j] = "*"
                    /\ LET a == Max({k \in 1..j : k = 1 \/ s[k - 1] # "*"})
                           k == RunEnd(s, j, "*") - a + 1
                       IN  j - a < 2 * (k \div 2)
            IN  Pick(s, [j \in 1..Len(s) |-> ~Gone(j)])
    IN
    trim(SelectSeq(
            SelectSeq(StripLinksFrom(StripBold(StripHeadings(text)), 1), LAMBDA c : c # "(backtick)"),
            LAMBDA c : c \notin {"-", "*"}))

\* this.colors
Colors ==
    [reset |-> "(esc)[0m", bright |-> "(esc)[1m", dim |-> "(esc)[2m", red |-> "(esc)[31m",
     green |-> "(esc)[32m", yellow |-> "(esc)[33m", blue |-> "(esc)[34m",
     magenta |-> "(esc)[35m", cyan |-> "(esc)[36m"]

\* colored: the output is an interactive terminal and neither CI nor
\* GITHUB_ACTIONS is set
colorize(text, color, colored) ==
    IF ~colored THEN text ELSE <<Colors[color]>> \o text \o <<Colors.reset>>

getRatingColor(rating) ==
    CASE rating = "good" -> "green"
      [] rating = "needs-attention" -> "yellow"
      [] rating = "poor" -> "red"
      [] OTHER -> "reset"

getRatingBadge(rating) ==
    CASE rating = "good" -> <<"(check mark)", " ", "*", "*", "Good", "*", "*", " ", "-", " No major issues detected">>
      [] rating = "needs-attention" ->
           <<"(warning sign)", " ", "*", "*", "Needs Attention", "*", "*", " ", "-", " Some issues found">>
      [] rating = "poor" ->
           <<"(cross mark)", " ", "*", "*", "Issues Found", "*", "*", " ", "-", " Requires changes before merge">>
      [] OTHER -> <<>>

getStatusIcon(status) ==
    CASE status = "added" -> "(sparkles)"
      [] status = "removed" -> "(wastebasket)"
      [] status = "modified" -> "(memo)"
      [] status = "renamed" -> "(package)"
      [] OTHER -> "(page)"

\* String.prototype.toUpperCase, on the lexemes that have lower case
toUpperCase(c) ==
    LET UpperOf ==
            ("low" :> "LOW") @@ ("medium" :> "MEDIUM") @@ ("high" :> "HIGH")
            @@ ("critical" :> "CRITICAL") @@ ("High" :> "HIGH") @@ ("urgent" :> "URGENT")
    IN  IF c \in DOMAIN UpperOf THEN UpperOf[c] ELSE c

DoubleRule == <<"(double line x60)">>
LightRule == <<"(light line x60)">>

formatFileText(review, colored) ==
    LET a == review.analysis
    IN  colorize(<<"(page)", " ">> \o review.filename, "bright", colored) \o <<"\n">>
        \o colorize(<<"   Rating: ", IF a.rating = "" THEN "N/A" ELSE a.rating>>,
                    getRatingColor(a.rating), colored) \o <<"\n">>
        \o (IF a.summary # <<>> THEN <<"   ">> \o stripMarkdown(a.summary) \o <<"\n">> ELSE <<>>)
        \o (IF LengthOrZero(a, "issues") > 0
            THEN colorize(<<"   Issues:">>, "red", colored) \o <<"\n">>
                 \o Concat([k \in 1..Len(a.issues) |->
                       colorize(<<"   ", "-", " ">> \o a.issues[k].description
                                \o (IF "severity" \in DOMAIN a.issues[k]
                                    THEN <<" ", "[", a.issues[k].severity, "]">> ELSE <<>>),
                                "yellow", colored) \o <<"\n">>])
            ELSE <<>>)
        \o (IF LengthOrZero(a, "suggestions") > 0
            THEN colorize(<<"   Suggestions:">>, "cyan", colored) \o <<"\n">>
                 \o Concat([k \in 1..Len(a.suggestions) |->
                       <<"   ", "-", " ">> \o a.suggestions[k].description \o <<"\n">>])
            ELSE <<>>)

formatText(revs, overall, colored) ==
    colorize(DoubleRule, "cyan", colored) \o <<"\n">>
    \o colorize(<<"  CODE REVIEW RESULTS">>, "bright", colored) \o <<"\n">>
    \o colorize(DoubleRule, "cyan", colored) \o <<"\n", "\n">>
    \o (IF "stats" \in DOMAIN overall
        THEN colorize(<<"Summary:">>, "bright", colored) \o <<"\n">>
             \o <<"  Files analyzed: ">> \o NumStr(overall.stats.totalFiles) \o <<"\n">>
             \o <<"  Issues found:   ">> \o NumStr(overall.stats.totalIssues) \o <<"\n">>
             \o <<"  Suggestions:    ">> \o NumStr(overall.stats.totalSuggestions) \o <<"\n">>
             \o (IF "securityIssues" \in DOMAIN overall.stats
                 THEN <<"  Security:       ">> \o NumStr(overall.stats.securityIssues) \o <<"\n">>
                 ELSE <<>>)
             \o <<"\n">>
        ELSE <<>>)
    \o (IF overall.summary # <<>>
        THEN colorize(<<"Overall Review:">>, "bright", colored) \o <<"\n">>
             \o stripMarkdown(overall.summary) \o <<"\n", "\n">>
        ELSE <<>>)
    \o colorize(LightRule, "cyan", colored) \o <<"\n">>
    \o colorize(<<"File Reviews:">>, "bright", colored) \o <<"\n">>
    \o colorize(LightRule, "cyan", colored) \o <<"\n", "\n">>
    \o Concat([n \in 1..Len(revs) |-> formatFileText(revs[n], colored) \o <<"\n">>])

TableRow(metric, value) == <<"|", " ", metric, " ", "|", " ">> \o value \o <<" ", "|", "\n">>
TableHead == <<"|", " ", "Metric", " ", "|", " ", "Value", " ", "|", "\n", "|--------|-------|", "\n">>

\* a number that is falsy when it is 0 or absent
Truthy(r, field) == field \in DOMAIN r /\ r[field] # 0

formatFileMarkdown(review) ==
    LET a == review.analysis
        changes == review.changes
        parts == (IF Truthy(changes, "additions") THEN <<<<"+">> \o NumStr(changes.additions)>> ELSE <<>>)
                 \o (IF Truthy(changes, "deletions") THEN <<<<"-">> \o NumStr(changes.deletions)>> ELSE <<>>)
        joined == IF parts = <<>> THEN <<>>
                  ELSE IF Len(parts) = 1 THEN parts[1]
                  ELSE parts[1] \o <<",", " ">> \o parts[2]
    IN  <<"#", "#", "#", " ", getStatusIcon(changes.status), " ">> \o review.filename \o <<"\n", "\n">>
        \o Bold(<<"Changes:">>) \o <<" ">>
        \o (IF joined = <<>> THEN <<"None">> ELSE joined) \o <<"\n", "\n">>
        \o (IF a.rating # "" THEN getRatingBadge(a.rating) \o <<"\n", "\n">> ELSE <<>>)
        \o (IF a.summary # <<>> THEN Bold(<<"Summary:">>) \o <<" ">> \o a.summary \o <<"\n", "\n">> ELSE <<>>)
        \o (IF LengthOrZero(a, "issues") > 0
            THEN <<"#", "#", "#", "#", " ", "Issues", "\n", "\n">>
                 \o Concat([k \in 1..Len(a.issues) |->
                       <<"-", " ">> \o a.issues[k].description
                       \o (IF "severity" \in DOMAIN a.issues[k]
                           THEN <<" ">> \o Bold(<<"[", toUpperCase(a.issues[k].severity), "]">>)
                           ELSE <<>>)
                       \o <<"\n">>])
                 \o <<"\n">>
            ELSE <<>>)
        \o (IF LengthOrZero(a, "suggestions") > 0
            THEN <<"#", "#", "#", "#", " ", "Suggestions", "\n", "\n">>
                 \o Concat([k \in 1..Len(a.suggestions) |->
                       <<"-", " ">> \o a.suggestions[k].description \o <<"\n">>])
                 \o <<"\n">>
            ELSE <<>>)

formatMarkdown(revs, overall) ==
    <<"#", " ", "Code Review Results", "\n", "\n">>
    \o (IF "stats" \in DOMAIN overall
        THEN <<"#", "#", " ", "Summary", "\n", "\n">> \o TableHead
             \o TableRow("Files Analyzed", NumStr(overall.stats.totalFiles))
             \o TableRow("Issues Found", NumStr(overall.stats.totalIssues))
             \o TableRow("Suggestions", NumStr(overall.stats.totalSuggestions))
             \o (IF "securityIssues" \in DOMAIN overall.stats
                 THEN TableRow("Security Concerns", NumStr(overall.stats.securityIssues))
                 ELSE <<>>)
             \o <<"\n">>
        ELSE <<>>)
    \o (IF overall.summary # <<>> THEN overall.summary \o <<"\n", "\n">> ELSE <<>>)
    \o <<"-", "-", "-", "\n", "\n">>
    \o <<"#", "#", " ", "File Reviews", "\n", "\n">>
    \o Concat([n \in 1..Len(revs) |-> formatFileMarkdown(revs[n]) \o <<"\n">>])

\* a variant of formatForGitHub that leaves the table out
formatForGitHubNarrativeOnly(overall) == overall.summary \o <<"\n", "\n">>

formatForGitHub(overall) ==
    (IF "stats" \in DOMAIN overall
     THEN <<"#", "#", " ", "Code Review Summary", "\n", "\n">>
          \o <<"(robot)", " ", "*", "Analyzed with Claude Code Review Assistant", "*", "\n", "\n">>
          \o TableHead
          \o TableRow("Files Changed", NumStr(overall.stats.totalFiles))
          \o TableRow("Issues Found", NumStr(overall.stats.totalIssues))
          \o TableRow("Suggestions", NumStr(overall.stats.totalSuggestions))
          \o (IF "securityIssues" \in DOMAIN overall.stats
              THEN TableRow("Security",
                            <<IF overall.stats.securityIssues > 0
                              THEN "(warning sign)" ELSE "(check mark)", " ">>
                            \o NumStr(overall.stats.securityIssues))
              ELSE <<>>)
          \o <<"\n">>
     ELSE <<>>)
    \o (IF overall.summary # <<>> THEN overall.summary \o <<"\n", "\n">> ELSE <<>>)

(***************************************************************************)
(* JSON.  A JavaScript value is a tagged record; an object keeps its keys  *)
(* in insertion order.                                                     *)
(***************************************************************************)
JsString(s) == [t |-> "string", s |-> s]
JsNumber(n) == [t |-> "number", n |-> n]
JsArray(xs) == [t |-> "array", items |-> xs]
JsObject(ks, vs) == [t |-> "object", keys |-> ks, vals |-> vs]
JsUndefined == [t |-> "undefined"]
JsError == [t |-> "SyntaxError"]

\* the keys of a record among `order`, in that order
KeysOf(r, order) == SelectSeq(order, LAMBDA k : k \in DOMAIN r)

\* an analysis as the object literal that made it
JsAnalysis(a) ==
    LET \* a finding as the object literal that made it
        JsFinding(f) ==
            LET fks == IF "type" \in DOMAIN f
                       THEN KeysOf(f, <<"type", "line", "severity", "description">>)
                       ELSE KeysOf(f, <<"description", "severity">>)
            IN  JsObject(fks, [n \in 1..Len(fks) |->
                    CASE fks[n] = "line" -> JsNumber(f.line)
                      [] fks[n] = "description" -> JsString(f.description)
                      [] OTHER -> JsString(<<f[fks[n]]>>)])
        ks == KeysOf(a, <<"summary", "issues", "suggestions", "security", "performance",
                          "rating", "rawResponse">>)
    IN  JsObject(ks, [n \in 1..Len(ks) |->
            CASE ks[n] \in {"summary", "rawResponse"} -> JsString(a[ks[n]])
              [] ks[n] = "rating" -> JsString(<<a.rating>>)
              [] OTHER -> JsArray([k \in 1..Len(a[ks[n]]) |-> JsFinding(a[ks[n]][k])])])

JsStats(stats) ==
    LET ks == KeysOf(stats, <<"totalFiles", "totalIssues", "totalSuggestions", "securityIssues">>)
    IN  JsObject(ks, [n \in 1..Len(ks) |-> JsNumber(stats[ks[n]])])

\* a variant of JsonEscape that leaves every character as it is
JsonEscapeNothing(c) == <<c>>

\* the escape sequence of a character inside a JSON string
JsonEscape(c) ==
    CASE c = "\"" -> <<"\\", "\"">>
      [] c = "\\" -> <<"\\", "\\">>
      [] c = "\n" -> <<"\\", "n">>
      [] c = "\t" -> <<"\\", "t">>
      [] OTHER -> <<c>>

RECURSIVE Stringify(_, _)
\* JSON.stringify(value, null, 2), at nesting level `level`: a property whose
\* value is undefined is left out, an undefined array element becomes null
Stringify(v, level) ==
    LET Quote(s) == <<"\"">> \o Concat([n \in 1..Len(s) |-> JsonEscape(s[n])]) \o <<"\"">>
        Indent(lv) == [n \in 1..(2 * lv) |-> " "]
    IN
    CASE v.t = "string" -> Quote(v.s)
      [] v.t = "number" -> NumStr(v.n)
      [] v.t = "array" ->
           IF v.items = <<>> THEN <<"[", "]">>
           ELSE <<"[">>
                \o Concat([n \in 1..Len(v.items) |->
                      (IF n > 1 THEN <<",">> ELSE <<>>) \o <<"\n">> \o Indent(level + 1)
                      \o (IF v.items[n].t = "undefined" THEN <<"null">>
                          ELSE Stringify(v.items[n], level + 1))])
                \o <<"\n">> \o Indent(level) \o <<"]">>
      [] v.t = "object" ->
           LET kept == SelectSeq([n \in 1..Len(v.keys) |-> n], LAMBDA n : v.vals[n].t # "undefined")
           IN  IF kept = <<>> THEN <<"{", "}">>
               ELSE <<"{">>
                    \o Concat([n \in 1..Len(kept) |->
                          (IF n > 1 THEN <<",">> ELSE <<>>) \o <<"\n">> \o Indent(level + 1)
                          \o Quote(<<v.keys[kept[n]]>>) \o <<":", " ">>
                          \o Stringify(v.vals[kept[n]], level + 1)])
                    \o <<"\n">> \o Indent(level) \o <<"}">>

\* JSON.parse: the value of the whole text, or the SyntaxError it throws
JSONparse(text) ==
    LET
        \* the number of backslashes that end just before position j
        RECURSIVE BackslashesBefore(_, _)
        BackslashesBefore(s, j) ==
            IF j = 1 \/ s[j - 1] # "\\" THEN 0 ELSE 1 + BackslashesBefore(s, j - 1)

        \* inside a JSON string: position j starts an escape sequence
        StartsEscape(s, j) == s[j] = "\\" /\ BackslashesBefore(s, j) % 2 = 0

        \* the text of a JSON string from the characters between its quotes
        Unescape(s) ==
            LET Escaped(j) == j > 1 /\ StartsEscape(s, j - 1)
                kept == Positions([j \in 1..Len(s) |-> ~StartsEscape(s, j)])
            IN  [n \in 1..Len(kept) |->
                    LET j == kept[n]
                    IN  IF ~Escaped(j) THEN s[j]
                        ELSE CASE s[j] = "n" -> "\n"
                               [] s[j] = "t" -> "\t"
                               [] OTHER -> s[j]]

        RECURSIVE SkipSpace(_, _)
        \* the first position from i on that holds no white space
        SkipSpace(s, i) == IF i > Len(s) \/ s[i] \notin Whitespace THEN i ELSE SkipSpace(s, i + 1)

        RECURSIVE NumOf(_)
        \* the number a run of decimal digits spells
        NumOf(ds) ==
            IF ds = <<>> THEN 0
            ELSE 10 * NumOf(SubSeq(ds, 1, Len(ds) - 1))
                 + (CHOOSE d \in 0..9 : Digit[d + 1] = ds[Len(ds)])

        \* a parse result: the value read and the position after it; a syntax error
        \* has position 0
        Parsed(v, next) == [v |-> v, next |-> next]
        Failed == [v |-> JsError, next |-> 0]

        RECURSIVE FirstOf(_, _, _, _)
        \* the first position of lo..hi that holds character c, or hi + 1; by halves
        FirstOf(s, c, lo, hi) ==
            IF lo > hi THEN hi + 1
            ELSE IF lo = hi THEN (IF s[lo] = c THEN lo ELSE hi + 1)
            ELSE LET mid == (lo + hi) \div 2
                 IN  IF \E j \in lo..mid : s[j] = c
                     THEN FirstOf(s, c, lo, mid) ELSE FirstOf(s, c, mid + 1, hi)

        RECURSIVE ClosingQuote(_, _)
        \* the first quote from position i on that no escape sequence holds, or
        \* Len(s) + 1; the search goes from quote to quote
        ClosingQuote(s, i) ==
            LET j == FirstOf(s, "\"", i, Len(s))
            IN  IF j > Len(s) \/ BackslashesBefore(s, j) % 2 = 0 THEN j ELSE ClosingQuote(s, j + 1)

        ParseString(s, i) ==
            LET j == ClosingQuote(s, i + 1)
            IN  IF j > Len(s) THEN Failed
                ELSE LET raw == SubSeq(s, i + 1, j - 1)
                     IN  IF \E k \in 1..Len(raw) : raw[k] \in {"\n", "\t"} THEN Failed
                         ELSE Parsed(JsString(Unescape(raw)), j + 1)

        RECURSIVE SkipDigits(_, _)
        \* the first position from i on that holds no digit
        SkipDigits(s, i) == IF i > Len(s) \/ s[i] \notin Digits THEN i ELSE SkipDigits(s, i + 1)

        RECURSIVE ParseValue(_, _), ParseItems(_, _, _), ParseMembers(_, _, _, _)
        \* the value that starts at position i, white space skipped
        ParseValue(s, at) ==
            LET i == SkipSpace(s, at)
            IN  IF i > Len(s) THEN Failed
                ELSE CASE s[i] = "\"" -> ParseString(s, i)
                       [] s[i] \in Digits ->
                            Parsed(JsNumber(NumOf(SubSeq(s, i, SkipDigits(s, i) - 1))), SkipDigits(s, i))
                       [] s[i] = "null" -> Parsed(JsUndefined, i + 1)
                       [] s[i] = "[" ->
                            IF SkipSpace(s, i + 1) <= Len(s) /\ s[SkipSpace(s, i + 1)] = "]"
                            THEN Parsed(JsArray(<<>>), SkipSpace(s, i + 1) + 1)
                            ELSE ParseItems(s, i + 1, <<>>)
                       [] s[i] = "{" ->
                            IF SkipSpace(s, i + 1) <= Len(s) /\ s[SkipSpace(s, i + 1)] = "}"
                            THEN Parsed(JsObject(<<>>, <<>>), SkipSpace(s, i + 1) + 1)
                            ELSE ParseMembers(s, i + 1, <<>>, <<>>)
                       [] OTHER -> Failed

        \* the elements of an array from position i on, after those already read
        ParseItems(s, i, items) ==
            LET item == ParseValue(s, i)
                j == SkipSpace(s, item.next)
            IN  IF item.next = 0 \/ j > Len(s) THEN Failed
                ELSE IF s[j] = "," THEN ParseItems(s, j + 1, Append(items, item.v))
                ELSE IF s[j] = "]" THEN Parsed(JsArray(Append(items, item.v)), j + 1)
                ELSE Failed

        \* the members of an object from position i on, after those already read
        ParseMembers(s, i, ks, vs) ==
            LET k == SkipSpace(s, i)
                key == IF k <= Len(s) /\ s[k] = "\"" THEN ParseString(s, k) ELSE Failed
                colon == IF key.next = 0 THEN 0 ELSE SkipSpace(s, key.next)
            IN  IF colon = 0 \/ colon > Len(s) \/ s[colon] # ":" \/ Len(key.v.s) # 1 THEN Failed
                ELSE LET val == ParseValue(s, colon + 1)
                         j == IF val.next = 0 THEN 0 ELSE SkipSpace(s, val.next)
                     IN  IF j = 0 \/ j > Len(s) THEN Failed
                         ELSE IF s[j] = ","
                              THEN ParseMembers(s, j + 1, Append(ks, key.v.s[1]), Append(vs, val.v))
                         ELSE IF s[j] = "}"
                              THEN Parsed(JsObject(Append(ks, key.v.s[1]), Append(vs, val.v)), j + 1)
                         ELSE Failed
        r == ParseValue(text, 1)
    IN  IF r.next # 0 /\ SkipSpace(text, r.next) = Len(text) + 1 THEN r.v ELSE JsError

\* obj[key] of a parsed object
Property(obj, key) ==
    IF obj.t = "object" /\ \E n \in 1..Len(obj.keys) : obj.keys[n] = key
    THEN obj.vals[CHOOSE n \in 1..Len(obj.keys) : obj.keys[n] = key]
    ELSE JsUndefined

formatJSON(revs, overall) ==
    LET output ==
            JsObject(<<"summary", "stats", "files">>,
                     << JsString(overall.summary),
                        JsStats(overall.stats),
                        JsArray([n \in 1..Len(revs) |->
                            JsObject(<<"filename", "analysis">>,
                                     <<JsString(revs[n].filename),
                                       JsAnalysis(revs[n].analysis)>>)]) >>)
    IN  Stringify(output, 0)

\* a variant of format that compares the name as it was given
formatCaseSensitive(revs, overall, fmt, colored) ==
    LET name == IF fmt = Undefined THEN <<"m", "a", "r", "k", "d", "o", "w", "n">> ELSE fmt
    IN  CASE name = <<"j", "s", "o", "n">> -> formatJSON(revs, overall)
          [] name = <<"t", "e", "x", "t">> -> formatText(revs, overall, colored)
          [] OTHER -> formatMarkdown(revs, overall)

\* format(reviews, overallReview, format = 'markdown'): the text returned
format(revs, overall, fmt, colored) ==
    LET name == toLowerCase(IF fmt = Undefined THEN <<"m", "a", "r", "k", "d", "o", "w", "n">> ELSE fmt)
    IN  CASE name = <<"j", "s", "o", "n">> -> formatJSON(revs, overall)
          [] name = <<"t", "e", "x", "t">> -> formatText(revs, overall, colored)
          [] OTHER -> formatMarkdown(revs, overall)

(***************************************************************************)
(* The security scanner: the pattern registry and scanFile.                *)
(***************************************************************************)
\* the chunks of letters and digits, in lower case
Alnum == {"abc", "x", "u", "p", "h", "el", "cmd", "aws", "ghp", "akia", "k{8}", "k{16}", "k{36}"}

\* a registry whose patterns carry the g flag as well
RuleGlobal(name, pattern, severity) ==
    [name |-> name, pattern |-> pattern, flags |-> {"g", "i"}, severity |-> severity]

\* one entry of the registry: every pattern literal is written /.../i
Rule(name, pattern, severity) ==
    [name |-> name, pattern |-> pattern, flags |-> {"i"}, severity |-> severity]

SECURITY_PATTERNS ==
    << Rule("Hardcoded Password", RePassword, "HIGH"),
       Rule("Hardcoded API Key", ReApiKey, "HIGH"),
       Rule("Hardcoded Secret", ReSecret, "HIGH"),
       \* /-----BEGIN\s+(RSA\s+)?PRIVATE\s+KEY-----/i
       Rule("Private Key",
            Cat(<<Lit("-----begin"), WsPlus, Opt(Cat(<<Lit("rsa"), WsPlus>>)), Lit("private"),
                  WsPlus, Lit("key-----")>>), "CRITICAL"),
       \* /(AKIA|ASIA)[A-Z0-9]{16}/i
       Rule("AWS Key", Cat(<<Cls({"akia", "asia"}), AtLeast(Alnum, 16)>>), "CRITICAL"),
       \* /gh[pousr]_[A-Za-z0-9]{36,}/i
       Rule("GitHub Token",
            Cat(<<Cls({"ghp", "gho", "ghu", "ghs", "ghr"}), Lit("_"), AtLeast(Alnum, 36)>>),
            "CRITICAL"),
       \* /token\s*=\s*['"][A-Za-z0-9_\-]{20,}['"]/i
       Rule("Generic Token",
            Cat(<<Lit("token"), WsStar, Lit("="), WsStar, Cls(Quotes),
                  AtLeast(Alnum \cup {"_", "-"}, 20), Cls(Quotes)>>), "MEDIUM"),
       \* /(mysql|postgres|mongodb):\/\/[^:]+:[^@]+@/i
       Rule("Database URL",
            Cat(<<Cls({"mysql", "postgres", "mongodb"}), Lit(":"), Lit("/"), Lit("/"),
                  Plus(NCls({":"})), Lit(":"), Plus(NCls({"@"})), Lit("@")>>), "HIGH"),
       \* /['"]\s*\+\s*[^;]+\+\s*['"]/i
       Rule("SQL Injection Risk",
            Cat(<<Cls(Quotes), WsStar, Lit("+"), WsStar, Plus(NCls({";"})), Lit("+"), WsStar,
                  Cls(Quotes)>>), "MEDIUM"),
       \* /\beval\s*\(/i
       Rule("Eval Usage", Cat(<<[k |-> "wordstart"], Lit("eval"), WsStar, Lit("(")>>), "HIGH"),
       \* /\.innerHTML\s*=/i
       Rule("Inner HTML", Cat(<<Lit(".innerhtml"), WsStar, Lit("=")>>), "MEDIUM"),
       \* /exec\s*\(\s*[^)]+\)/i
       Rule("Command Injection",
            Cat(<<Lit("exec"), WsStar, Lit("("), WsStar, Plus(NCls({")"})), Lit(")")>>), "HIGH"),
       \* /md5|sha1/i
       Rule("Weak Crypto", Cls({"md5", "sha1"}), "MEDIUM"),
       \* /rejectUnauthorized\s*:\s*false/i
       Rule("Disabled SSL",
            Cat(<<Lit("rejectunauthorized"), WsStar, Lit(":"), WsStar, Lit("false")>>), "HIGH"),
       \* /debug\s*:\s*true/i
       Rule("Debug Mode", Cat(<<Lit("debug"), WsStar, Lit(":"), WsStar, Lit("true")>>), "LOW") >>

SnippetLength == 100

RECURSIVE substring(_, _)
\* String.prototype.substring(0, k)
substring(str, k) ==
    IF str = <<>> \/ k <= 0 THEN <<>>
    ELSE IF LexLen(Head(str)) <= k
         THEN <<Head(str)>> \o substring(Tail(str), k - LexLen(Head(str)))
         \* the first k characters of a run lexeme
         ELSE LET CutRun == (<<"x{120}", 100>> :> "x{100}") @@ (<<"x{120}", 73>> :> "x{73}")
              IN  <<CutRun[<<Head(str), k>>]>>

\* pattern.pattern.test(line), li being the lastIndex of the pattern object: with
\* the g or the y flag the search starts at lastIndex and leaves there the end of
\* the match, or 0 after a miss; without them it starts at 0 and leaves lastIndex
\* alone
RegExpTest(rule, line, li) ==
    LET ci == "i" \in rule.flags
        From(starts) ==
            IF starts = {} THEN [hit |-> FALSE, lastIndex |-> 0]
            ELSE LET first == CHOOSE i \in starts : \A j \in starts : i <= j
                     ends == Ends(rule.pattern, line, first, ci)
                 IN  [hit |-> TRUE,
                      lastIndex |-> (CHOOSE e \in ends : \A f \in ends : f <= e) - 1]
    IN  IF "g" \in rule.flags
        THEN From({i \in (li + 1)..(Len(line) + 1) : Ends(rule.pattern, line, i, ci) # {}})
        ELSE IF "y" \in rule.flags
        THEN From({i \in {li + 1} : i <= Len(line) + 1 /\ Ends(rule.pattern, line, i, ci) # {}})
        ELSE [hit |-> test(rule.pattern, line, ci), lastIndex |-> li]

RECURSIVE LineFindings(_, _, _, _, _)
\* for (const pattern of SECURITY_PATTERNS), from rule r on: the findings of line
\* n in the order of the registry, and the lastIndex of every pattern afterwards
LineFindings(filePath, lines, n, r, li) ==
    IF r > Len(SECURITY_PATTERNS) THEN [issues |-> <<>>, lastIndex |-> li]
    ELSE LET pattern == SECURITY_PATTERNS[r]
             Pushed(hit) ==
                 IF hit
                 THEN <<[file |-> filePath, line |-> n, issue |-> pattern.name,
                         severity |-> pattern.severity,
                         snippet |-> substring(trim(lines[n]), SnippetLength)]>>
                 ELSE <<>>
             Both(t, rest) ==
                 [issues |-> Pushed(t.hit) \o rest.issues, lastIndex |-> rest.lastIndex]
             Then(t) ==
                 Both(t, LineFindings(filePath, lines, n, r + 1, [li EXCEPT ![r] = t.lastIndex]))
         IN  Then(RegExpTest(pattern, lines[n], li[r]))

\* li: the lastIndex of the pattern of each rule when the call begins; the
\* result carries the issues returned and the lastIndex values left behind
scanFile(filePath, content, li) ==
    LET lines == split(content, "\n")
        RECURSIVE LinesFrom(_, _)
        LinesFrom(n, at) ==
            IF n > Len(lines) THEN [issues |-> <<>>, lastIndex |-> at]
            ELSE LET Both(here, rest) ==
                         [issues |-> here.issues \o rest.issues, lastIndex |-> rest.lastIndex]
                     Then(here) == Both(here, LinesFrom(n + 1, here.lastIndex))
                 IN  Then(LineFindings(filePath, lines, n, 1, at))
    IN  LinesFrom(1, li)

(***************************************************************************)
(* Inputs of the analyzer harness: patches of up to MaxLines lines.        *)
(***************************************************************************)
PatchLines ==
    { <<"password", " ", "=", " ", "'", "abc", "'">>,
      <<"PASSWORD", "=", "\"", "abc", "\"", ";", " ", "api", "_", "key", "=", "'", "abc", "'">>,
      <<"const", " ", "api", "Key", " ", "=", " ", "\"", "sk-1234567890", "\"", ";">>,
      <<"secret", "=", "'", "abc", "'", " ", "console.log", "(", ")">>,
      <<"password", " ", "=", " ", "'", "'">>,
      <<"password", " ", "=", " ", "process.env.PW">>,
      <<" ", "console.log", "(", "x", ")", ";">>,
      <<"//", " ", "TODO", " ", "fix", " ">>,
      <<"}", " ", "catch", " ", "(", "e", ")", " ", "{">>,
      <<"catch", "(", "e", ")", "{">>,
      <<"}">>,
      <<"}", " ", "else", " ", "{">>,
      <<"p", ".then", " ", "(", "f", ")">>,
      <<"await", " ", "p", ".then", "(", "f", ")">>,
      <<"x{120}">>,
      <<"x{120}", "x">>,
      <<"x{120}", "y{25}">>,
      <<"var", " ", "x", " ", "=", " ", "1">>,
      <<"x", " ", "=", " ", "1">>,
      <<>> }

RECURSIVE SeqsUpTo(_, _)
\* the sequences of at most n elements of S
SeqsUpTo(S, n) ==
    IF n = 0 THEN {<<>>}
    ELSE LET shorter == SeqsUpTo(S, n - 1)
         IN  shorter \cup {Append(q, x) : q \in shorter, x \in S}

(***************************************************************************)
(* The analyzer harness: analyzeWithStaticAnalysis applied to one file.    *)
(***************************************************************************)
InitScanner ==
    /\ file \in [filename : { <<"a", ".", "js">>, <<"b", ".", "min", ".", "ts">>,
                              <<"c", ".", "py">>, <<"Makefile">> },
                 status : {"modified"},
                 patch : {join(ls, "\n") : ls \in SeqsUpTo(PatchLines, MaxLines)}
                         \cup {Undefined}]
    /\ analysis = NotYet
    /\ reviews = <<>> /\ overallReview = NotYet /\ options = NotYet /\ formatted = Undefined
    /\ pc = "idle" /\ apiKey = FALSE /\ files = <<>> /\ llmCalls = <<>> /\ warnings = <<>>
    /\ posted = NotYet /\ exitCode = NotYet
    /\ command = "none" /\ calls = <<>> /\ diffOutput = Undefined
    /\ lastIndexOf = [r \in 1..Len(SECURITY_PATTERNS) |-> 0]
    /\ paths = <<>> /\ filesScanned = <<>> /\ allIssues = <<>> /\ filteredIssues = NotYet
    /\ printed = NotYet /\ savedReport = NotYet

AnalyzeStatic ==
    /\ analysis = NotYet
    /\ file # NotYet
    /\ analysis' = analyzeWithStaticAnalysis(file)
    /\ UNCHANGED <<file, reportVars, prVars, scanVars>>

NextScanner == AnalyzeStatic

SpecScanner == InitScanner /\ [][NextScanner]_vars

(***************************************************************************)
(* Inputs of the commands: the changed files of a pull request and the     *)
(* response texts of the LLM.                                              *)
(***************************************************************************)
MaxFiles == 2

ChangedFile(name, status, additions, deletions, patch) ==
    [filename |-> name, status |-> status, additions |-> additions, deletions |-> deletions,
     patch |-> patch]

PRFiles ==
    { ChangedFile(<<"a", ".", "js">>, "modified", 2, 1,
                  <<"password", " ", "=", " ", "'", "abc", "'", "\n",
                    " ", "console.log", "(", "x", ")", ";">>),
      ChangedFile(<<"b", ".", "js">>, "added", 1, 0, <<" ", "console.log", "(", "x", ")", ";">>),
      ChangedFile(<<"c", ".", "py">>, "modified", 1, 1, <<"//", " ", "TODO", " ", "fix", " ">>),
      ChangedFile(<<"logo", ".", "png">>, "added", 0, 0, Undefined),
      ChangedFile(<<"d", ".", "js">>, "renamed", 0, 0, <<>>) }

Responses ==
    { <<"Summary", ":", " ", "Adds", " ", "login", "\n", "\n",
        "-", " ", "Issue", ":", " ", "security", " ", "hole", "\n",
        "-", " ", "Suggestion", ":", " ", "rename", " ", "x">>,
      <<"Looks", " ", "fine">>,
      <<"1", ".", " ", "Bug", ":", " ", "crash", " ", "on", " ", "\"", "null", "\"", "\n",
        "\t", "path", " ", "C", ":", "\\", "tmp", "\n",
        "performance", " ", "is", " ", "slow">> }

PrDetails == [title |-> <<"Add", " ", "login">>, author |-> <<"octocat">>, baseBranch |-> <<"main">>]

\* reviews.push({filename: file.filename, analysis, changes: file})
Review(f, a) == [filename |-> f.filename, analysis |-> a, changes |-> f]

(***************************************************************************)
(* The report harness: a list of reviews, as the analyzer returns them, is *)
(* aggregated and then formatted.                                          *)
(***************************************************************************)
Reviews ==
    {Review(f, analyzeWithStaticAnalysis(f)) : f \in PRFiles}
    \cup {Review(f, parseClaudeResponse(r, f)) : f \in PRFiles, r \in Responses}

InitReport ==
    /\ reviews \in SeqsUpTo(Reviews, MaxFiles)
    /\ overallReview = NotYet /\ options = NotYet /\ formatted = Undefined
    /\ file = NotYet /\ analysis = NotYet
    /\ pc = "idle" /\ apiKey = FALSE /\ files = <<>> /\ llmCalls = <<>> /\ warnings = <<>>
    /\ posted = NotYet /\ exitCode = NotYet
    /\ command = "none" /\ calls = <<>> /\ diffOutput = Undefined
    /\ lastIndexOf = [r \in 1..Len(SECURITY_PATTERNS) |-> 0]
    /\ paths = <<>> /\ filesScanned = <<>> /\ allIssues = <<>> /\ filteredIssues = NotYet
    /\ printed = NotYet /\ savedReport = NotYet

GenerateOverall ==
    /\ overallReview = NotYet
    /\ overallReview' = generateOverallReview(PrDetails, reviews)
    /\ UNCHANGED <<reviews, options, formatted, analyzerVars, prVars, scanVars>>

GenerateLocal ==
    /\ overallReview = NotYet
    /\ \E staged \in BOOLEAN :
         overallReview' = generateLocalReview(reviews, [staged |-> staged, base |-> <<"main">>])
    /\ UNCHANGED <<reviews, options, formatted, analyzerVars, prVars, scanVars>>

Format ==
    /\ overallReview # NotYet
    /\ formatted = Undefined
    \* the values of --format, as characters; Undefined is an omitted argument
    /\ \E name \in { <<"j", "s", "o", "n">>, <<"J", "S", "O", "N">>, <<"t", "e", "x", "t">>,
                     <<"T", "e", "x", "t">>, <<"m", "a", "r", "k", "d", "o", "w", "n">>,
                     <<"h", "t", "m", "l">>, <<>>, Undefined },
          colored \in BOOLEAN :
         /\ options' = [format |-> name]
         /\ formatted' = format(reviews, overallReview, name, colored)
    /\ UNCHANGED <<reviews, overallReview, analyzerVars, prVars, scanVars>>

NextReport == GenerateOverall \/ GenerateLocal \/ Format

SpecReport == InitReport /\ [][NextReport]_vars

(***************************************************************************)
(* The pr command: fetch the pull request and its files, analyze each      *)
(* file, aggregate, format, and post the review.                           *)
(***************************************************************************)
Init ==
    /\ pc = "start"
    /\ options \in [token : BOOLEAN, post : BOOLEAN, approval : BOOLEAN,
                    format : {<<"m", "a", "r", "k", "d", "o", "w", "n">>, <<"j", "s", "o", "n">>}]
    /\ apiKey \in BOOLEAN
    /\ files = <<>> /\ reviews = <<>> /\ overallReview = NotYet /\ formatted = Undefined
    /\ llmCalls = <<>> /\ warnings = <<>>
    /\ posted = NotYet /\ exitCode = NotYet
    /\ command = "pr" /\ calls = <<>> /\ diffOutput = Undefined
    /\ lastIndexOf = [r \in 1..Len(SECURITY_PATTERNS) |-> 0]
    /\ paths = <<>> /\ filesScanned = <<>> /\ allIssues = <<>> /\ filteredIssues = NotYet
    /\ printed = NotYet /\ savedReport = NotYet
    /\ file = NotYet /\ analysis = NotYet

\* process.exit(code), or the action returning
Exit(code) == pc' = "exited" /\ exitCode' = [code |-> code]

\* console.error of the message, then process.exit(1); also the end of a
\* command whose action rejects with nothing to catch it: the runtime prints
\* the error and the process ends with code 1
Fail(message) == pc' = "exited" /\ exitCode' = [code |-> 1, error |-> message]

\* a variant of PrStart without the token check
PrStartUnchecked ==
    /\ pc = "start"
    /\ pc' = "getPullRequest"
    /\ UNCHANGED <<reportVars, apiKey, files, llmCalls, warnings, posted, exitCode, command,
                   calls, diffOutput, analyzerVars, scanVars>>

\* the token check before anything is fetched
PrStart ==
    /\ pc = "start"
    /\ IF options.token THEN pc' = "getPullRequest" /\ UNCHANGED exitCode
       ELSE Fail(<<"Error: GitHub token required. Use ", "-", "-", "token or set GITHUB_TOKEN environment variable.">>)
    /\ UNCHANGED <<reportVars, apiKey, files, llmCalls, warnings, posted, command, calls,
                   diffOutput, analyzerVars, scanVars>>

PrGetPullRequest ==
    /\ pc = "getPullRequest"
    /\ \E ok \in BOOLEAN :
         /\ calls' = Append(calls, [op |-> "getPullRequest", ok |-> ok])
         /\ IF ok THEN pc' = "getPullRequestFiles" /\ UNCHANGED exitCode
            ELSE Fail(<<"Failed to fetch pull request: ", "(cause)">>)
    /\ UNCHANGED <<reportVars, apiKey, files, llmCalls, warnings, posted, command, diffOutput,
                   analyzerVars, scanVars>>

\* a variant of PrGetPullRequestFiles that goes on without files when the call fails
PrGetPullRequestFilesGoesOn ==
    /\ pc = "getPullRequestFiles"
    /\ \E ok \in BOOLEAN :
         /\ calls' = Append(calls, [op |-> "getPullRequestFiles", ok |-> ok])
         /\ files' \in IF ok THEN SeqsUpTo(PRFiles, MaxFiles) ELSE {<<>>}
         /\ reviews' = <<>>
         /\ pc' = "analyze"
         /\ UNCHANGED exitCode
    /\ UNCHANGED <<overallReview, options, formatted, apiKey, llmCalls, warnings, posted,
                   command, diffOutput, analyzerVars, scanVars>>

PrGetPullRequestFiles ==
    /\ pc = "getPullRequestFiles"
    /\ \E ok \in BOOLEAN :
         /\ calls' = Append(calls, [op |-> "getPullRequestFiles", ok |-> ok])
         /\ IF ok
            THEN /\ files' \in SeqsUpTo(PRFiles, MaxFiles)
                 /\ reviews' = <<>>
                 /\ pc' = "analyze"
                 /\ UNCHANGED exitCode
            ELSE /\ Fail(<<"Failed to fetch pull request files: ", "(cause)">>)
                 /\ UNCHANGED <<files, reviews>>
    /\ UNCHANGED <<overallReview, options, formatted, apiKey, llmCalls, warnings, posted,
                   command, diffOutput, analyzerVars, scanVars>>

\* one turn of for (const file of files): the analysis of the file is awaited
\* before the review is pushed and the next turn starts
PrAnalyzeFile ==
    /\ pc = "analyze"
    /\ Len(reviews) < Len(files)
    /\ LET f == files[Len(reviews) + 1]
       IN  \E outcome \in IF apiKey THEN {Failure} \cup {[ok |-> TRUE, text |-> r] : r \in Responses}
                          ELSE {Failure} :
             /\ reviews' = Append(reviews, Review(f, analyzeCode(f, apiKey, outcome)))
             /\ llmCalls' = IF apiKey THEN Append(llmCalls, [filename |-> f.filename, ok |-> outcome.ok])
                            ELSE llmCalls
             /\ warnings' = IF apiKey /\ ~outcome.ok THEN Append(warnings, f.filename) ELSE warnings
             /\ calls' = Append(calls, [op |-> "analyzeCode", file |-> f.filename, ok |-> TRUE])
    /\ UNCHANGED <<overallReview, options, formatted, pc, apiKey, files, posted, exitCode,
                   command, diffOutput, analyzerVars, scanVars>>

PrOverallReview ==
    /\ pc = "analyze"
    /\ Len(reviews) = Len(files)
    /\ overallReview' = generateOverallReview(PrDetails, reviews)
    /\ pc' = "format"
    /\ UNCHANGED <<reviews, options, formatted, apiKey, files, llmCalls, warnings, posted,
                   exitCode, command, calls, diffOutput, analyzerVars, scanVars>>

\* a variant of PrFormat that puts the reviews with issues first, in place
PrFormatSortingReviews ==
    /\ pc = "format"
    /\ reviews' = SelectSeq(reviews, LAMBDA r : LengthOrZero(r.analysis, "issues") > 0)
                   \o SelectSeq(reviews, LAMBDA r : LengthOrZero(r.analysis, "issues") = 0)
    /\ \E colored \in BOOLEAN : formatted' = format(reviews', overallReview, options.format, colored)
    /\ pc' = "post"
    /\ UNCHANGED <<overallReview, options, apiKey, files, llmCalls, warnings, posted,
                   exitCode, command, calls, diffOutput, analyzerVars, scanVars>>

\* formatter.format, and the result printed
PrFormat ==
    /\ pc = "format"
    /\ \E colored \in BOOLEAN : formatted' = format(reviews, overallReview, options.format, colored)
    /\ pc' = "post"
    /\ UNCHANGED <<reviews, overallReview, options, apiKey, files, llmCalls, warnings, posted,
                   exitCode, command, calls, diffOutput, analyzerVars, scanVars>>

\* a variant of PrPostReview that requests changes when an issue was found
PrPostReviewByIssues ==
    /\ pc = "post"
    /\ posted' = [body |-> formatForGitHub(overallReview),
                  event |-> IF overallReview.stats.totalIssues > 0 THEN "REQUEST_CHANGES"
                            ELSE IF options.approval THEN "APPROVE" ELSE "COMMENT"]
    /\ calls' = Append(calls, [op |-> "postReview", ok |-> TRUE])
    /\ Exit(0)
    /\ UNCHANGED <<reportVars, apiKey, files, llmCalls, warnings, command, diffOutput,
                   analyzerVars, scanVars>>

\* if (options.post) { postReview(...) }
PrPostReview ==
    /\ pc = "post"
    /\ IF ~options.post THEN Exit(0) /\ UNCHANGED <<posted, calls>>
       ELSE \E ok \in BOOLEAN :
              /\ calls' = Append(calls, [op |-> "postReview", ok |-> ok])
              /\ IF ok
                 THEN /\ posted' = [body |-> formatForGitHub(overallReview),
                                    event |-> IF options.approval THEN "APPROVE" ELSE "COMMENT"]
                      /\ Exit(0)
                 ELSE Fail(<<"Failed to post review: ", "(cause)">>) /\ UNCHANGED posted
    /\ UNCHANGED <<reportVars, apiKey, files, llmCalls, warnings, command, diffOutput,
                   analyzerVars, scanVars>>

Next ==
    \/ PrStart
    \/ PrGetPullRequest
    \/ PrGetPullRequestFiles
    \/ PrAnalyzeFile
    \/ PrOverallReview
    \/ PrFormat
    \/ PrPostReview

Spec == Init /\ [][Next]_vars

(***************************************************************************)
(* LocalAnalyzer: the files of a git diff.  In a diff the chunks           *)
(* "diff --git", "a/", "b/", "new file", "deleted file", "renamed",        *)
(* "index", "---", "+++" and "@@" are lexemes of their own.                *)
(***************************************************************************)
MaxSections == 2

parseDiff(diff) ==
    LET \* the places of /^diff --git/m
        marks == SelectSeq([i \in 1..Len(diff) |-> i],
                           LAMBDA i : diff[i] = "diff --git" /\ (i = 1 \/ diff[i - 1] = "\n"))
        Bound(k) == IF k = 0 THEN 0 ELSE IF k > Len(marks) THEN Len(diff) + 1 ELSE marks[k]
        \* .split(/^diff --git/m).filter(Boolean)
        fileChunks == SelectSeq([k \in 1..(Len(marks) + 1) |->
                                    SubSeq(diff, Bound(k - 1) + 1, Bound(k) - 1)],
                                LAMBDA chunk : chunk # <<>>)
        \* line.match(/a\/(.+?) b\/(.+)/): the places of a/ and of the blank before b/
        HeaderMatches(line) ==
            {ij \in (1..Len(line)) \X (1..Len(line)) :
                /\ line[ij[1]] = "a/" /\ ij[2] > ij[1] + 1
                /\ line[ij[2]] = " " /\ ij[2] + 2 <= Len(line) /\ line[ij[2] + 1] = "b/"}
        \* the leftmost match, its first group the shortest
        HeaderMatch(line) ==
            CHOOSE ij \in HeaderMatches(line) :
                \A o \in HeaderMatches(line) : ij[1] < o[1] \/ (ij[1] = o[1] /\ ij[2] <= o[2])
        StartsPatch(line) == line # <<>> /\ line[1] \in {"index", "---", "+++", "@@"}
        FileOf(chunk) ==
            LET lines == split(chunk, "\n")
                from == {n \in 2..Len(lines) : StartsPatch(lines[n])}
                first == CHOOSE n \in from : \A o \in from : n <= o
            IN  [filename |-> SubSeq(lines[1], HeaderMatch(lines[1])[2] + 2, Len(lines[1])),
                 \* the three tests read lines[0], the rest of the diff --git line
                 status |-> IF includes(lines[1], "renamed") THEN "renamed"
                            ELSE IF includes(lines[1], "deleted file") THEN "deleted"
                            ELSE IF includes(lines[1], "new file") THEN "added"
                            ELSE "modified",
                 patch |-> IF from = {} THEN <<>>
                           ELSE join(SubSeq(lines, first, Len(lines)), "\n"),
                 diff |-> chunk]
        \* if (!headerMatch) continue
        matched == SelectSeq(fileChunks, LAMBDA chunk : HeaderMatches(split(chunk, "\n")[1]) # {})
    IN  [k \in 1..Len(matched) |-> FileOf(matched[k])]

\* the sections git diff writes for a file: modified, new, deleted, renamed,
\* and a modified file whose name holds the words new file
DiffSections ==
    { <<"diff --git", " ", "a/", "x", ".", "js", " ", "b/", "x", ".", "js", "\n",
        "index", " 1a2b3c4..5d6e7f8 100644", "\n",
        "---", " ", "a/", "x", ".", "js", "\n", "+++", " ", "b/", "x", ".", "js", "\n",
        "@@", " -1 +1 ", "@@", "\n", "+", "x", " ", "=", " ", "1", "\n">>,
      <<"diff --git", " ", "a/", "n", ".", "js", " ", "b/", "n", ".", "js", "\n",
        "new file", " mode 100644", "\n", "index", " 0000000..5d6e7f8", "\n",
        "---", " ", "/dev/null", "\n", "+++", " ", "b/", "n", ".", "js", "\n",
        "@@", " -0,0 +1 ", "@@", "\n", "+", "console.log", "(", "x", ")", ";", "\n">>,
      <<"diff --git", " ", "a/", "d", ".", "py", " ", "b/", "d", ".", "py", "\n",
        "deleted file", " mode 100644", "\n", "index", " 5d6e7f8..0000000", "\n",
        "---", " ", "a/", "d", ".", "py", "\n", "+++", " ", "/dev/null", "\n",
        "@@", " -1 +0,0 ", "@@", "\n", "-", "x", "\n">>,
      <<"diff --git", " ", "a/", "o", ".", "js", " ", "b/", "r", ".", "js", "\n",
        "similarity index 100%", "\n", "rename from", " ", "o", ".", "js", "\n",
        "rename to", " ", "r", ".", "js", "\n">>,
      <<"diff --git", " ", "a/", "new file", ".", "txt", " ", "b/", "new file", ".", "txt", "\n",
        "index", " 1a2b3c4..5d6e7f8 100644", "\n",
        "---", " ", "a/", "new file", ".", "txt", "\n", "+++", " ", "b/", "new file", ".", "txt", "\n",
        "@@", " -1 +1 ", "@@", "\n", "+", "x", "\n">> }

(***************************************************************************)
(* The local command: read the changes from git, analyze each file,        *)
(* aggregate, format, print, and save when --output is given.              *)
(***************************************************************************)
InitLocal ==
    /\ pc = "local"
    /\ command = "local"
    /\ options \in [staged : BOOLEAN, output : BOOLEAN,
                    format : {<<"m", "a", "r", "k", "d", "o", "w", "n">>, <<"t", "e", "x", "t">>}]
    /\ apiKey \in BOOLEAN
    /\ files = <<>> /\ reviews = <<>> /\ overallReview = NotYet /\ formatted = Undefined
    /\ llmCalls = <<>> /\ warnings = <<>> /\ calls = <<>> /\ diffOutput = Undefined
    /\ posted = NotYet /\ exitCode = NotYet
    /\ paths = <<>> /\ filesScanned = <<>> /\ allIssues = <<>> /\ filteredIssues = NotYet
    /\ printed = NotYet /\ savedReport = NotYet
    /\ lastIndexOf = [r \in 1..Len(SECURITY_PATTERNS) |-> 0]
    /\ file = NotYet /\ analysis = NotYet

\* getStagedChanges or getBranchDiff; either rethrows what git raised
LocalGetFiles ==
    /\ pc = "local"
    /\ \E ok \in BOOLEAN :
         IF options.staged
         THEN /\ calls' = Append(calls, [op |-> "getStagedChanges", ok |-> ok])
              /\ UNCHANGED diffOutput
              /\ IF ok
                 THEN /\ \E staged \in SeqsUpTo(DiffSections, MaxSections) :
                           \* git diff --cached -- file, made a patch by generatePatch
                           files' = [k \in 1..Len(staged) |->
                                       LET diff == staged[k]
                                       IN  [filename |-> parseDiff(diff)[1].filename,
                                            status |-> "modified",
                                            patch |-> IF trim(diff) # <<>>
                                                      THEN <<"diff --git", " ", "a/">>
                                                           \o parseDiff(diff)[1].filename
                                                           \o <<" ", "b/">>
                                                           \o parseDiff(diff)[1].filename
                                                           \o <<"\n">> \o diff
                                                      ELSE <<>>,
                                            diff |-> diff]]
                      /\ pc' = "local.analyze" /\ UNCHANGED exitCode
                 ELSE /\ Fail(<<"Failed to get staged changes: ", "(cause)">>)
                      /\ UNCHANGED files
         ELSE /\ calls' = Append(calls, [op |-> "getBranchDiff", ok |-> ok])
              /\ IF ok
                 THEN /\ \E sections \in SeqsUpTo(DiffSections, MaxSections) :
                           /\ diffOutput' = Concat(sections)
                           /\ files' = parseDiff(Concat(sections))
                      /\ pc' = "local.analyze" /\ UNCHANGED exitCode
                 ELSE /\ Fail(<<"Failed to get branch diff: ", "(cause)">>)
                      /\ UNCHANGED <<files, diffOutput>>
    /\ UNCHANGED <<reportVars, apiKey, llmCalls, warnings, posted, command,
                   analyzerVars, scanVars>>

\* a variant of LocalAnalyzeFile that takes the files from the last to the first
LocalAnalyzeFileBackwards ==
    /\ pc = "local.analyze"
    /\ Len(reviews) < Len(files)
    /\ LET f == files[Len(files) - Len(reviews)]
       IN  /\ reviews' = Append(reviews, Review(f, analyzeCode(f, FALSE, Failure)))
           /\ calls' = Append(calls, [op |-> "analyzeCode", file |-> f.filename, ok |-> TRUE])
    /\ UNCHANGED <<overallReview, options, formatted, pc, apiKey, files, posted, exitCode,
                   llmCalls, warnings, command, diffOutput, analyzerVars, scanVars>>

\* one turn of for (const file of files)
LocalAnalyzeFile ==
    /\ pc = "local.analyze"
    /\ Len(reviews) < Len(files)
    /\ LET f == files[Len(reviews) + 1]
       IN  \E outcome \in IF apiKey THEN {Failure} \cup {[ok |-> TRUE, text |-> r] : r \in Responses}
                          ELSE {Failure} :
             /\ reviews' = Append(reviews, Review(f, analyzeCode(f, apiKey, outcome)))
             /\ llmCalls' = IF apiKey THEN Append(llmCalls, [filename |-> f.filename, ok |-> outcome.ok])
                            ELSE llmCalls
             /\ warnings' = IF apiKey /\ ~outcome.ok THEN Append(warnings, f.filename) ELSE warnings
             /\ calls' = Append(calls, [op |-> "analyzeCode", file |-> f.filename, ok |-> TRUE])
    /\ UNCHANGED <<overallReview, options, formatted, pc, apiKey, files, posted, exitCode,
                   command, diffOutput, analyzerVars, scanVars>>

\* generateLocalReview, format, print, and writeFileSync when --output is given
LocalReport ==
    /\ pc = "local.analyze"
    /\ Len(reviews) = Len(files)
    /\ LET overall == generateLocalReview(reviews, [staged |-> options.staged, base |-> <<"main">>])
       IN  /\ overallReview' = overall
           /\ formatted' = format(reviews, overall, options.format, FALSE)
    /\ \/ Exit(0)
       \/ options.output /\ Fail(<<"EACCES">>)
    /\ UNCHANGED <<reviews, options, apiKey, files, llmCalls, warnings, posted, command, calls,
                   diffOutput, analyzerVars, scanVars>>

(***************************************************************************)
(* The action command: the pull request of the event payload is reviewed   *)
(* and the review posted.  Nothing catches what the calls raise.           *)
(***************************************************************************)
InitAction ==
    /\ pc = "action"
    /\ command = "action"
    \* GITHUB_TOKEN, the event path, and what the event file holds
    /\ options \in [token : BOOLEAN, eventPath : BOOLEAN,
                    event : {[pull_request |-> [number |-> 7]], [pull_request |-> [number |-> 12]],
                             [ref |-> <<"main">>], [unreadable |-> TRUE]}]
    /\ apiKey \in BOOLEAN
    /\ files = <<>> /\ reviews = <<>> /\ overallReview = NotYet /\ formatted = Undefined
    /\ llmCalls = <<>> /\ warnings = <<>> /\ calls = <<>> /\ diffOutput = Undefined
    /\ posted = NotYet /\ exitCode = NotYet
    /\ paths = <<>> /\ filesScanned = <<>> /\ allIssues = <<>> /\ filteredIssues = NotYet
    /\ printed = NotYet /\ savedReport = NotYet
    /\ lastIndexOf = [r \in 1..Len(SECURITY_PATTERNS) |-> 0]
    /\ file = NotYet /\ analysis = NotYet

\* the two checks, then the event file is read and parsed
ActionStart ==
    /\ pc = "action"
    /\ IF ~options.token
       THEN Fail(<<"Error: GITHUB_TOKEN environment variable required for GitHub Actions">>)
       ELSE IF ~options.eventPath
       THEN Fail(<<"Error: GitHub event file not found">>)
       ELSE IF "unreadable" \in DOMAIN options.event
       THEN Fail(<<"ENOENT">>)
       ELSE IF "pull_request" \notin DOMAIN options.event
       THEN Exit(0)
       ELSE pc' = "action.fetch" /\ UNCHANGED exitCode
    /\ UNCHANGED <<reportVars, apiKey, files, llmCalls, warnings, posted, command, calls,
                   diffOutput, analyzerVars, scanVars>>

\* getPullRequest, then getPullRequestFiles
ActionFetch ==
    /\ pc = "action.fetch"
    /\ \/ /\ calls' = Append(calls, [op |-> "getPullRequest", ok |-> FALSE])
          /\ Fail(<<"Failed to fetch pull request: ", "(cause)">>)
          /\ UNCHANGED files
       \/ /\ calls' = calls \o << [op |-> "getPullRequest", ok |-> TRUE],
                                 [op |-> "getPullRequestFiles", ok |-> FALSE] >>
          /\ Fail(<<"Failed to fetch pull request files: ", "(cause)">>)
          /\ UNCHANGED files
       \/ /\ calls' = calls \o << [op |-> "getPullRequest", ok |-> TRUE],
                                 [op |-> "getPullRequestFiles", ok |-> TRUE] >>
          /\ files' \in SeqsUpTo(PRFiles, MaxFiles)
          /\ pc' = "action.analyze" /\ UNCHANGED exitCode
    /\ UNCHANGED <<reportVars, apiKey, llmCalls, warnings, posted, command, diffOutput,
                   analyzerVars, scanVars>>

\* one turn of for (const file of files)
ActionAnalyzeFile ==
    /\ pc = "action.analyze"
    /\ Len(reviews) < Len(files)
    /\ LET f == files[Len(reviews) + 1]
       IN  \E outcome \in IF apiKey THEN {Failure} \cup {[ok |-> TRUE, text |-> r] : r \in Responses}
                          ELSE {Failure} :
             /\ reviews' = Append(reviews, Review(f, analyzeCode(f, apiKey, outcome)))
             /\ llmCalls' = IF apiKey THEN Append(llmCalls, [filename |-> f.filename, ok |-> outcome.ok])
                            ELSE llmCalls
             /\ warnings' = IF apiKey /\ ~outcome.ok THEN Append(warnings, f.filename) ELSE warnings
             /\ calls' = Append(calls, [op |-> "analyzeCode", file |-> f.filename, ok |-> TRUE])
    /\ UNCHANGED <<overallReview, options, formatted, pc, apiKey, files, posted, exitCode,
                   command, diffOutput, analyzerVars, scanVars>>

\* a variant of ActionPostReview that posts only when an issue was found
ActionPostReviewWhenIssues ==
    /\ pc = "action.analyze"
    /\ Len(reviews) = Len(files)
    /\ overallReview' = generateOverallReview(PrDetails, reviews)
    /\ IF overallReview'.stats.totalIssues > 0
       THEN \E ok \in BOOLEAN :
              /\ calls' = Append(calls, [op |-> "postReview", ok |-> ok])
              /\ IF ok
                 THEN /\ posted' = [body |-> formatForGitHub(overallReview'), event |-> "COMMENT",
                                    pull_number |-> options.event.pull_request.number]
                      /\ Exit(0)
                 ELSE Fail(<<"Failed to post review: ", "(cause)">>) /\ UNCHANGED posted
       ELSE Exit(0) /\ UNCHANGED <<calls, posted>>
    /\ UNCHANGED <<reviews, options, formatted, apiKey, files, llmCalls, warnings, command,
                   diffOutput, analyzerVars, scanVars>>

\* generateOverallReview, formatForGitHub, postReview with the event COMMENT
ActionPostReview ==
    /\ pc = "action.analyze"
    /\ Len(reviews) = Len(files)
    /\ overallReview' = generateOverallReview(PrDetails, reviews)
    /\ \E ok \in BOOLEAN :
         /\ calls' = Append(calls, [op |-> "postReview", ok |-> ok])
         /\ IF ok
            THEN /\ posted' = [body |-> formatForGitHub(generateOverallReview(PrDetails, reviews)),
                               event |-> "COMMENT",
                               pull_number |-> options.event.pull_request.number]
                 /\ Exit(0)
            ELSE Fail(<<"Failed to post review: ", "(cause)">>) /\ UNCHANGED posted
    /\ UNCHANGED <<reviews, options, formatted, apiKey, files, llmCalls, warnings, command,
                   diffOutput, analyzerVars, scanVars>>

(***************************************************************************)
(* The three commands of the review assistant.                             *)
(***************************************************************************)
InitCommands == Init \/ InitLocal \/ InitAction

NextCommands ==
    \/ PrStart
    \/ PrGetPullRequest
    \/ PrGetPullRequestFiles
    \/ PrAnalyzeFile
    \/ PrOverallReview
    \/ PrFormat
    \/ PrPostReview
    \/ LocalGetFiles
    \/ LocalAnalyzeFile
    \/ LocalReport
    \/ ActionStart
    \/ ActionFetch
    \/ ActionAnalyzeFile
    \/ ActionPostReview

SpecCommands == InitCommands /\ [][NextCommands]_vars

(***************************************************************************)
(* The scan command of the security scanner: visit the paths, filter the   *)
(* findings by severity, sort, print, save, and choose the exit code.      *)
(***************************************************************************)
MaxPaths == 2

File(name, content) == [kind |-> "file", name |-> name, content |-> content]
ScanTargets ==
    { File(<<"id_rsa">>,
           <<"-----BEGIN", " ", "RSA", " ", "PRIVATE", " ", "KEY-----", "\n", "k{36}">>),
      File(<<"app", ".", "js">>,
           <<"password", " ", "=", " ", "'", "abc", "'", "\n",
             " ", "eval", "(", "x", ")", ";", " ", "el", ".innerHTML", " ", "=", " ", "md5", "(", "x", ")", "\n",
             "debug", ":", " ", "true", "\n",
             "_", "eval", "(", "x", ")">>),
      File(<<"clean", ".", "js">>, <<"x", " ", "=", " ", "1">>),
      File(<<".", "env">>, <<"secret", "=", "'", "abc", "'">>),
      [kind |-> "dir", name |-> <<"src">>, items |->
          << File(<<"tok", ".", "js">>,
                  <<"token", " ", "=", " ", "\"", "ghp", "_", "k{36}", "\"">>),
             \* neither a file nor a directory
             [kind |-> "other", name |-> <<"sock">>],
             [kind |-> "dir", name |-> <<"lib">>, items |->
                 << File(<<"db", ".", "js">>,
                         <<"postgres", ":", "/", "/", "u", ":", "p", "@", "h", "\n",
                           "aws", "=", "'", "AKIA", "k{16}", "'", " ", "x{120}">>) >>] >>],
      \* no such path: statSync throws
      [kind |-> "missing", name |-> <<"nope">>] }


RECURSIVE scanDir(_, _, _)
\* the findings and the files of a directory, sub-directories included; li as in
\* scanFile
scanDir(dir, items, li) ==
    IF items = <<>> THEN [issues |-> <<>>, scanned |-> <<>>, lastIndex |-> li]
    ELSE LET item == Head(items)
             fullPath == dir \o <<"/">> \o item.name
             Both(here, rest) ==
                 [issues |-> here.issues \o rest.issues, scanned |-> here.scanned \o rest.scanned,
                  lastIndex |-> rest.lastIndex]
             Then(here) == Both(here, scanDir(dir, Tail(items), here.lastIndex))
             File1(found) ==
                 [issues |-> found.issues, scanned |-> <<fullPath>>, lastIndex |-> found.lastIndex]
         IN  Then(CASE item.kind = "dir" -> scanDir(fullPath, item.items, li)
                    [] item.kind = "file" -> File1(scanFile(fullPath, item.content, li))
                    [] OTHER -> [issues |-> <<>>, scanned |-> <<>>, lastIndex |-> li])

\* options.severity is truthy
HasSeverity(opts) == opts.severity # Undefined /\ opts.severity # <<>>

\* a variant of filterBySeverity that compares with the option as it was typed
filterBySeverityAsTyped(issues, severity) ==
    SelectSeq(issues, LAMBDA i : <<i.severity>> = severity)

\* allIssues.filter(i => i.severity === options.severity.toUpperCase())
filterBySeverity(issues, severity) ==
    SelectSeq(issues, LAMBDA i : <<i.severity>> = [n \in 1..Len(severity) |-> toUpperCase(severity[n])])

\* Array.prototype.sort with the difference of severityOrder: the sort is stable
sortBySeverity(issues) ==
    LET severityOrder == [CRITICAL |-> 0, HIGH |-> 1, MEDIUM |-> 2, LOW |-> 3]
    IN  Concat([rank \in 1..4 |->
                   SelectSeq(issues, LAMBDA i : severityOrder[i.severity] = rank - 1)])

countOf(issues, severity) == Len(SelectSeq(issues, LAMBDA i : i.severity = severity))

bySeverity(issues) ==
    [CRITICAL |-> countOf(issues, "CRITICAL"), HIGH |-> countOf(issues, "HIGH"),
     MEDIUM |-> countOf(issues, "MEDIUM"), LOW |-> countOf(issues, "LOW")]

\* a variant of criticalCount that counts the findings before the filter
criticalCountBeforeFilter(all, filtered) == countOf(all, "CRITICAL")

\* filteredIssues.filter(i => i.severity === 'CRITICAL').length
criticalCount(all, filtered) == countOf(filtered, "CRITICAL")

InitScan ==
    /\ pc = "scan"
    \* the values of --severity; Undefined is an absent option
    /\ options \in [severity : { Undefined, <<>>, <<"CRITICAL">>, <<"critical">>, <<"High">>,
                                 <<"MEDIUM">>, <<"low">>, <<"urgent">> },
                    recursive : BOOLEAN, output : BOOLEAN]
    /\ paths \in SeqsUpTo(ScanTargets, MaxPaths) \ {<<>>}
    /\ filesScanned = <<>> /\ allIssues = <<>> /\ filteredIssues = NotYet
    /\ printed = NotYet /\ savedReport = NotYet
    /\ exitCode = NotYet
    /\ command = "scan" /\ calls = <<>> /\ diffOutput = Undefined
    /\ lastIndexOf = [r \in 1..Len(SECURITY_PATTERNS) |-> 0]
    /\ file = NotYet /\ analysis = NotYet
    /\ reviews = <<>> /\ overallReview = NotYet /\ formatted = Undefined
    /\ apiKey = FALSE /\ files = <<>> /\ llmCalls = <<>> /\ warnings = <<>> /\ posted = NotYet

\* one turn of for (const scanPath of paths)
ScanPath ==
    /\ pc = "scan"
    /\ paths # <<>>
    /\ LET scanPath == Head(paths)
       IN  IF scanPath.kind = "missing"
           THEN /\ pc' = "exited"
                /\ exitCode' = [code |-> 1, error |-> "ENOENT"]
                /\ UNCHANGED <<paths, filesScanned, allIssues, lastIndexOf>>
           ELSE /\ paths' = Tail(paths)
                /\ UNCHANGED <<pc, exitCode>>
                /\ IF scanPath.kind = "dir" /\ options.recursive
                   THEN LET found == scanDir(scanPath.name, scanPath.items, lastIndexOf)
                        IN  /\ allIssues' = allIssues \o found.issues
                            /\ filesScanned' = filesScanned \o found.scanned
                            /\ lastIndexOf' = found.lastIndex
                   ELSE IF scanPath.kind = "file"
                   THEN LET found == scanFile(scanPath.name, scanPath.content, lastIndexOf)
                        IN  /\ allIssues' = allIssues \o found.issues
                            /\ filesScanned' = Append(filesScanned, scanPath.name)
                            /\ lastIndexOf' = found.lastIndex
                   ELSE UNCHANGED <<allIssues, filesScanned, lastIndexOf>>
    /\ UNCHANGED <<filteredIssues, printed, savedReport, options, analyzerVars,
                   reviews, overallReview, formatted, apiKey, files, llmCalls, warnings, posted, command, calls, diffOutput>>

\* the rest of the action, after the loop
ScanReport ==
    /\ pc = "scan"
    /\ paths = <<>>
    /\ LET filtered == sortBySeverity(IF HasSeverity(options)
                                      THEN filterBySeverity(allIssues, options.severity)
                                      ELSE allIssues)
       IN  /\ filteredIssues' = filtered
           \* without a filter the sort is applied to allIssues itself
           /\ allIssues' = IF HasSeverity(options) THEN allIssues ELSE filtered
           /\ printed' = IF Len(filtered) > 0
                         THEN [scanned |-> Len(filesScanned), found |-> Len(filtered),
                               issues |-> filtered, bySeverity |-> bySeverity(filtered)]
                         ELSE [scanned |-> Len(filesScanned), found |-> 0]
           /\ savedReport' = IF options.output
                             THEN [scanned |-> Len(filesScanned), issues |-> filtered,
                                   summary |-> bySeverity(filtered)]
                             ELSE NotYet
           /\ Exit(IF criticalCount(allIssues, filtered) > 0 THEN 1 ELSE 0)
    /\ UNCHANGED <<paths, filesScanned, options, analyzerVars,
                   reviews, overallReview, formatted, apiKey, files, llmCalls, warnings, posted, command, calls, diffOutput, lastIndexOf>>

NextScan == ScanPath \/ ScanReport

SpecScan == InitScan /\ [][NextScan]_vars

(***************************************************************************)
(* Properties of the pattern-based analyzer (under SpecScanner).           *)
(***************************************************************************)
Analyzed == analysis # NotYet

\* a credential-literal shape: password, api key or secret assigned a quoted
\* non-empty literal
CredentialShapes == {RePassword, ReApiKey, ReSecret}
ShapesMatching(line) == {re \in CredentialShapes : test(re, line, TRUE)}

SecurityIssuesAt(n) ==
    SelectSeq(analysis.issues, LAMBDA i : i.type = "security" /\ i.line = n)

\* C2: every line of the patch with a credential-literal shape produces exactly
\* one issue of type security and severity high whose line is the line's 1-based
\* index, also when several shapes match; a line without one produces none.
C2_OneSecurityIssuePerCredentialLine ==
    (Analyzed /\ ~NoPatch(file)) =>
        LET lines == split(file.patch, "\n")
        IN  /\ \A n \in 1..Len(lines) :
                 /\ Len(SecurityIssuesAt(n)) = IF ShapesMatching(lines[n]) # {} THEN 1 ELSE 0
                 /\ \A h \in 1..Len(SecurityIssuesAt(n)) : SecurityIssuesAt(n)[h].severity = "high"
            /\ \A k \in 1..Len(analysis.issues) :
                 analysis.issues[k].type = "security" => analysis.issues[k].line \in 1..Len(lines)

\* C2 witness: the second line of a patch matches two credential shapes and has
\* one security issue.
C2_Witness ==
    /\ Analyzed /\ ~NoPatch(file)
    /\ LET lines == split(file.patch, "\n")
       IN  /\ Len(lines) = 2
           /\ Cardinality(ShapesMatching(lines[2])) = 2
           /\ Len(SecurityIssuesAt(2)) = 1

HasSevereIssue == \E k \in 1..Len(analysis.issues) : analysis.issues[k].severity \in {"high", "critical"}

\* C5 as stated: the rating is needs-attention when an issue has severity high
\* or critical, neutral when there are no issues and no patch, good otherwise.
C5_RatingByHighSeverity ==
    Analyzed =>
        analysis.rating =
            IF HasSevereIssue THEN "needs-attention"
            ELSE IF Len(analysis.issues) = 0 /\ NoPatch(file) THEN "neutral"
            ELSE "good"

\* C5 amended: for a review of the pattern-based analyzer the rating is neutral
\* when no patch was available, needs-attention when the patch produced at
\* least one issue of any severity, and good when it produced none.
C5_RatingByIssuePresence ==
    Analyzed =>
        analysis.rating =
            IF NoPatch(file) THEN "neutral"
            ELSE IF Len(analysis.issues) > 0 THEN "needs-attention"
            ELSE "good"

\* C5 witness: a patch whose only issues have severity low is rated
\* needs-attention, while suggestions are present.
C5_Witness ==
    /\ Analyzed /\ ~NoPatch(file)
    /\ Len(analysis.issues) > 0
    /\ ~HasSevereIssue
    /\ Len(analysis.suggestions) > 0
    /\ analysis.rating = "needs-attention"

\* C10 as stated: a non-security match of severity low or medium is never
\* placed in issues, so every issue is of type security or of severity high or
\* critical.
C10_LowSeverityNeverAnIssue ==
    Analyzed =>
        \A k \in 1..Len(analysis.issues) :
            \/ analysis.issues[k].type = "security"
            \/ analysis.issues[k].severity \in {"high", "critical"}

\* C10 amended: issues hold exactly the credential matches (security, high) and
\* the debug/print statement matches (style, low), one per matching line;
\* every other match (maintenance, best-practice, potential-bug, style) is a
\* suggestion, which carries no severity.
C10_IssuesAreCredentialsAndDebug ==
    (Analyzed /\ ~NoPatch(file)) =>
        LET lines == split(file.patch, "\n")
            DebugAt(n) == SelectSeq(analysis.issues, LAMBDA i : i.type = "style" /\ i.line = n)
        IN  /\ \A k \in 1..Len(analysis.issues) :
                 LET i == analysis.issues[k]
                 IN  \/ i.type = "security" /\ i.severity = "high" /\ ShapesMatching(lines[i.line]) # {}
                     \/ i.type = "style" /\ i.severity = "low" /\ i.description = MsgDebug
            /\ \A n \in 1..Len(lines) :
                 /\ Len(DebugAt(n)) =
                      IF includes(lines[n], "console.log") \/ includes(lines[n], "console.debug")
                      THEN 1 ELSE 0
                 /\ Len(SecurityIssuesAt(n)) = IF ShapesMatching(lines[n]) # {} THEN 1 ELSE 0
            /\ \A k \in 1..Len(analysis.suggestions) :
                 LET g == analysis.suggestions[k]
                 IN  /\ g.type \in {"maintenance", "best-practice", "potential-bug", "style"}
                     /\ "severity" \notin DOMAIN g
                     /\ g.description # MsgDebug

\* C10 witness: a line with a debug statement and a credential gives two issues
\* on it, one of severity low.
C10_Witness ==
    /\ Analyzed /\ ~NoPatch(file)
    /\ \E k, m \in 1..Len(analysis.issues) :
         /\ analysis.issues[k].line = analysis.issues[m].line
         /\ analysis.issues[k].type = "style" /\ analysis.issues[k].severity = "low"
         /\ analysis.issues[m].type = "security"
    /\ Len(analysis.suggestions) > 0

(***************************************************************************)
(* Properties of the aggregator and of the formatter (under SpecReport).   *)
(***************************************************************************)
Aggregated == overallReview # NotYet
Formatted == formatted # Undefined

\* the findings of a field over all reviews, as (review, index) pairs
FindingsOf(field) ==
    UNION { {<<n, k>> : k \in DOMAIN reviews[n].analysis[field]} :
            n \in {m \in 1..Len(reviews) : field \in DOMAIN reviews[m].analysis} }

SecurityCategoryIssues ==
    {p \in FindingsOf("issues") : reviews[p[1]].analysis.issues[p[2]].type = "security"}

\* a review the LLM-assisted path produced keeps the response text
FromLLM(review) == "rawResponse" \in DOMAIN review.analysis

CountsAddUp ==
    /\ overallReview.stats.totalFiles = Len(reviews)
    /\ overallReview.stats.totalIssues = Cardinality(FindingsOf("issues"))
    /\ overallReview.stats.totalSuggestions = Cardinality(FindingsOf("suggestions"))

\* C3 as stated: the aggregate counts the reviews, the issues and the
\* suggestions, and its security count is the number of issues of category
\* security, whichever path produced each review.
C3_SecurityCountIsSecurityIssues ==
    Aggregated =>
        /\ CountsAddUp
        /\ "securityIssues" \in DOMAIN overallReview.stats =>
               overallReview.stats.securityIssues = Cardinality(SecurityCategoryIssues)

\* C3 amended: the aggregate counts the reviews, the issues and the
\* suggestions; the security count of generateOverallReview is the sum of the
\* lengths of the reviews' security lists, which is the number of issues of
\* category security when every review comes from the pattern-based path;
\* generateLocalReview carries no security count.
C3_SecurityCountIsSecurityLists ==
    Aggregated =>
        /\ CountsAddUp
        /\ "securityIssues" \in DOMAIN overallReview.stats =>
               /\ overallReview.stats.securityIssues = Cardinality(FindingsOf("security"))
               /\ (\A n \in 1..Len(reviews) : ~FromLLM(reviews[n])) =>
                      overallReview.stats.securityIssues = Cardinality(SecurityCategoryIssues)
        /\ "options" \in DOMAIN overallReview => "securityIssues" \notin DOMAIN overallReview.stats

\* C3 witness: the aggregate of a pattern-path review with a credential issue
\* and an LLM-path review whose response mentions security counts two security
\* concerns and one issue of category security.
C3_Witness ==
    /\ Aggregated
    /\ "securityIssues" \in DOMAIN overallReview.stats
    /\ Len(reviews) = 2
    /\ ~FromLLM(reviews[1]) /\ FromLLM(reviews[2])
    /\ overallReview.stats.totalIssues = 3
    /\ overallReview.stats.securityIssues = 2
    /\ Cardinality(SecurityCategoryIssues) = 1

\* the name, compared without regard to case, is the given lower-case word
NamedIgnoringCase(name, word) ==
    /\ name # Undefined
    /\ Len(name) = Len(word)
    /\ \A n \in 1..Len(word) : toLowerCaseLex(name[n]) = word[n]

IsJSONName(name) == NamedIgnoringCase(name, <<"j", "s", "o", "n">>)
IsTextName(name) == NamedIgnoringCase(name, <<"t", "e", "x", "t">>)

\* C6: the text formatJSON returns parses to an object whose summary and stats
\* equal those of the overall review and whose files array has one
\* {filename, analysis} entry per review, in order.
C6_JSONRoundTrip ==
    (Formatted /\ IsJSONName(options.format)) =>
        LET obj == JSONparse(formatted)
            fs == Property(obj, "files")
        IN  /\ obj.t = "object"
            /\ obj.keys = <<"summary", "stats", "files">>
            /\ Property(obj, "summary") = JsString(overallReview.summary)
            /\ Property(obj, "stats") = JsStats(overallReview.stats)
            /\ fs.t = "array"
            /\ Len(fs.items) = Len(reviews)
            /\ \A n \in 1..Len(reviews) :
                 /\ fs.items[n].t = "object"
                 /\ fs.items[n].keys = <<"filename", "analysis">>
                 /\ Property(fs.items[n], "filename") = JsString(reviews[n].filename)
                 /\ Property(fs.items[n], "analysis") = JsAnalysis(reviews[n].analysis)

\* C6 witness: a JSON rendering of two reviews whose texts hold a quote, a
\* backslash, a tab and line breaks.
C6_Witness ==
    /\ Formatted /\ IsJSONName(options.format)
    /\ Len(reviews) = 2
    /\ FromLLM(reviews[2])
    /\ \A c \in {"\"", "\\", "\t", "\n"} : includes(reviews[2].analysis.rawResponse, c)
    /\ includes(overallReview.summary, "\n")
    /\ JSONparse(formatted).t = "object"

\* C9: format gives the structured rendering for the name json, the plain-text
\* rendering for the name text, both compared without regard to case, and the
\* markdown rendering for every other name and for an omitted name; it
\* returns a text for every name.
C9_RendererByName ==
    Formatted =>
        IF IsJSONName(options.format)
        THEN formatted = formatJSON(reviews, overallReview) /\ Head(formatted) = "{"
        ELSE IF IsTextName(options.format)
        THEN /\ \E colored \in BOOLEAN : formatted = formatText(reviews, overallReview, colored)
             /\ includes(formatted, "  CODE REVIEW RESULTS")
        ELSE /\ formatted = formatMarkdown(reviews, overallReview)
             /\ SubSeq(formatted, 1, 3) = <<"#", " ", "Code Review Results">>

\* C9 witness: the name JSON in capitals gave the structured rendering.
C9_Witness ==
    /\ Formatted
    /\ options.format = <<"J", "S", "O", "N">>
    /\ Head(formatted) = "{"

(***************************************************************************)
(* Properties of analyzeCode in the pr command (under Spec).               *)
(***************************************************************************)
\* the files analyzed so far
Done == 1..Len(reviews)

PatchEmptyOrAbsent(f) == f.patch = Undefined \/ Len(f.patch) = 0

\* the review is rated neutral and holds no finding
NeutralAndEmpty(a) == a.rating = "neutral" /\ a.issues = <<>> /\ a.suggestions = <<>>

\* the LLM was called for the n-th file and answered
Answered(n) == apiKey /\ llmCalls[n].ok

\* C1 as stated: a file whose patch is empty or absent gets a review rated
\* neutral with no issues and no suggestions, whichever analysis mode is
\* configured.
C1_NoPatchIsNeutral ==
    \A n \in Done : PatchEmptyOrAbsent(files[n]) => NeutralAndEmpty(reviews[n].analysis)

\* C1 amended: a file whose patch is empty or absent gets a review rated
\* neutral with no issues and no suggestions when the pattern-based path
\* reviews it, that is when no API key is configured or the LLM call failed.
C1_NoPatchIsNeutralOnPatternPath ==
    \A n \in Done :
        (PatchEmptyOrAbsent(files[n]) /\ ~Answered(n)) => NeutralAndEmpty(reviews[n].analysis)

\* C1 witness: with an API key, a file without a patch whose LLM call failed is
\* rated neutral while another one, which the LLM answered, is rated good.
C1_Witness ==
    /\ pc = "exited" /\ exitCode.code = 0 /\ apiKey
    /\ Len(reviews) = 2
    /\ files[1].patch = <<>> /\ files[2].patch = Undefined
    /\ ~Answered(1) /\ NeutralAndEmpty(reviews[1].analysis)
    /\ Answered(2) /\ reviews[2].analysis.rating = "good"

\* C4: a review with one or more issues is never rated good, on the
\* pattern-based path and on the LLM-assisted path.
C4_IssuesNeverRatedGood ==
    \A n \in Done : Len(reviews[n].analysis.issues) > 0 => reviews[n].analysis.rating # "good"

\* C4 witness: the LLM answered with a response that lists an issue of severity
\* high, and the review is rated good.
C4_Witness ==
    \E n \in Done :
        /\ Answered(n)
        /\ \E k \in 1..Len(reviews[n].analysis.issues) : reviews[n].analysis.issues[k].severity = "high"
        /\ reviews[n].analysis.rating = "good"

\* C8: when the LLM call fails for a file its review is the review of the
\* pattern-based path and a warning is logged; the loop goes on, every file is
\* attempted through the LLM, also after a failure, and the command does not
\* exit before all files are reviewed.
C8_FallbackForTheFailingFileOnly ==
    apiKey =>
        /\ Len(llmCalls) = Len(reviews)
        /\ \A n \in Done :
             /\ llmCalls[n].filename = files[n].filename
             /\ ~llmCalls[n].ok => reviews[n].analysis = analyzeWithStaticAnalysis(files[n])
             /\ llmCalls[n].ok => "rawResponse" \in DOMAIN reviews[n].analysis
        /\ Len(warnings) = Cardinality({n \in Done : ~llmCalls[n].ok})
        /\ pc = "analyze" => exitCode = NotYet
        /\ pc = "exited" => Len(reviews) = Len(files)

\* C8 witness: the LLM call failed for the first file, which has a patch with
\* issues, and answered for the second; the command ended with exit code 0.
C8_Witness ==
    /\ apiKey /\ pc = "exited" /\ exitCode.code = 0
    /\ Len(reviews) = 2
    /\ ~llmCalls[1].ok /\ llmCalls[2].ok
    /\ Len(reviews[1].analysis.issues) = 2
    /\ reviews[1].analysis.rating = "needs-attention"
    /\ "rawResponse" \in DOMAIN reviews[2].analysis
    /\ warnings = <<files[1].filename>>

(***************************************************************************)
(* Properties of the scan command (under SpecScan).                        *)
(***************************************************************************)
\* the command ran to its end without an error
ScanEnded == pc = "exited" /\ "error" \notin DOMAIN exitCode

\* a finding of severity CRITICAL exists in the files scanned
CriticalInScannedFiles == \E k \in 1..Len(allIssues) : allIssues[k].severity = "CRITICAL"

\* the severity option, when given, names CRITICAL in any case
KeepsCritical ==
    ~HasSeverity(options) \/ toLowerCase(options.severity) = <<"critical">>

\* C7 as stated: for every value of --severity the scan command exits with
\* code 1 when a CRITICAL finding exists in the scanned files and with code 0
\* otherwise.
C7_ExitOneIffCriticalInFiles ==
    ScanEnded => (exitCode.code = 1 <=> CriticalInScannedFiles)

\* C7 amended: the scan command exits with code 1 when a CRITICAL finding is
\* among the findings left by the severity filter, that is when one exists in
\* the scanned files and --severity is absent, empty or names CRITICAL in any
\* case, and with code 0 otherwise.
C7_ExitOneIffCriticalReported ==
    ScanEnded =>
        /\ exitCode.code \in {0, 1}
        /\ exitCode.code = 1 <=> (CriticalInScannedFiles /\ KeepsCritical)
        /\ exitCode.code = 1 <=>
               \E k \in 1..Len(filteredIssues) : filteredIssues[k].severity = "CRITICAL"

\* C7 witness: a private key was found, the filter names another severity,
\* and the command ended with exit code 0.
C7_Witness ==
    /\ ScanEnded
    /\ CriticalInScannedFiles
    /\ HasSeverity(options) /\ ~KeepsCritical
    /\ Len(filteredIssues) > 0
    /\ exitCode.code = 0


(***************************************************************************)
(* The long-line rule and malformed patch text (under SpecScanner).        *)
(***************************************************************************)
\* the lines of the patch analyzed
LinesAnalyzed == split(file.patch, "\n")

HasPatch == file.patch # Undefined /\ file.patch # <<>>

\* no rule other than the long-line rule matches the line
QuietLine(line) ==
    /\ ~DebugStatement(line) /\ ~HardcodedCredential(line)
    /\ \A c \in {"TODO", "FIXME", "HACK", "catch", ".then", "var"} : ~includes(line, c)

LongLinesAnalyzed == {n \in 1..Len(LinesAnalyzed) : StrLen(LinesAnalyzed[n]) > 120}

\* C11: a patch with exactly one line longer than 120 characters and no other
\* match gets exactly one suggestion, of type style, without a severity, that
\* names the 1-based index and the length of the line, no issue and the rating
\* good; the rating of a patch is decided by its issues alone, whatever its
\* suggestions.
C11_OneLongLineOneSuggestion ==
    (Analyzed /\ HasPatch) =>
        /\ analysis.rating = IF analysis.issues = <<>> THEN "good" ELSE "needs-attention"
        /\ ((\A n \in 1..Len(LinesAnalyzed) : QuietLine(LinesAnalyzed[n]))
            /\ Cardinality(LongLinesAnalyzed) = 1) =>
              LET n == CHOOSE k \in LongLinesAnalyzed : TRUE
              IN  /\ analysis.issues = <<>>
                  /\ analysis.rating = "good"
                  /\ analysis.suggestions =
                        <<[type |-> "style", line |-> n,
                           description |-> <<"Line exceeds 120 characters (">>
                                           \o NumStr(StrLen(LinesAnalyzed[n]))
                                           \o <<" chars). Consider breaking it up.">>]>>
                  /\ LinesAnalyzed[n] = <<"x{120}", "y{25}">> =>
                        analysis.suggestions[1].description =
                            <<"Line exceeds 120 characters (", "1", "4", "5",
                              " chars). Consider breaking it up.">>

\* a line of 145 characters after a line of exactly 120 characters
C11_Witness ==
    /\ Analyzed
    /\ file.patch = <<"x{120}", "\n", "x{120}", "y{25}">>
    /\ Len(analysis.suggestions) = 1 /\ analysis.suggestions[1].line = 2
    /\ analysis.rating = "good"

\* C12: whatever the patch text, the analyzer returns a review and raises
\* nothing, also when the line after the last line is looked at; a text that
\* matches no rule gets no issue and no suggestion.
C12_AlwaysAReviewNeverAnError ==
    Analyzed =>
        /\ "threw" \notin DOMAIN analysis
        /\ {"summary", "issues", "suggestions", "rating"} \subseteq DOMAIN analysis
        /\ (HasPatch /\ LongLinesAnalyzed = {}
            /\ \A n \in 1..Len(LinesAnalyzed) : QuietLine(LinesAnalyzed[n])) =>
              analysis.issues = <<>> /\ analysis.suggestions = <<>>

\* a single line without a newline whose catch makes the lookahead read past
\* the last line
C12_Witness ==
    /\ Analyzed
    /\ file.patch = <<"catch", "(", "e", ")", "{">>
    /\ "rating" \in DOMAIN analysis /\ analysis.suggestions = <<>>


(***************************************************************************)
(* The files of a branch diff (under SpecCommands).                        *)
(***************************************************************************)
\* the places of the diff --git lines in the text git diff returned
SectionStarts == SelectSeq([i \in 1..Len(diffOutput) |-> i], LAMBDA i : diffOutput[i] = "diff --git")

\* the lines of section k, the diff --git line first
SectionLines(k) ==
    split(SubSeq(diffOutput, SectionStarts[k],
                 IF k < Len(SectionStarts) THEN SectionStarts[k + 1] - 2 ELSE Len(diffOutput) - 1),
          "\n")

\* the lines of the header of section k after the diff --git line: those
\* before the file names and the hunks
HeaderLines(k) ==
    SelectSeq(Tail(SectionLines(k)),
              LAMBDA line : line # <<>> /\ line[1] \notin {"---", "+++", "@@", "+", "-", " "})

\* the status the markers of the header of section k give
StatusByMarkers(k) ==
    LET Marked(words) == \E n \in 1..Len(HeaderLines(k)) : HeaderLines(k)[n][1] \in words
    IN  IF Marked({"new file"}) THEN "added"
        ELSE IF Marked({"deleted file"}) THEN "deleted"
        ELSE IF Marked({"rename from", "rename to", "renamed"}) THEN "renamed"
        ELSE "modified"

BranchDiffParsed == command = "local" /\ diffOutput # Undefined

\* C13: parseDiff returns one record for each diff --git section of the
\* diff, in order, whose status is the one the markers of the header of the
\* section give: added for new file, deleted for deleted file, renamed for a
\* rename marker, modified otherwise.
C13_StatusFromHeaderMarkers ==
    BranchDiffParsed =>
        /\ Len(files) = Len(SectionStarts)
        /\ \A k \in 1..Len(files) : files[k].status = StatusByMarkers(k)

\* the diff of a new file, which git marks on the line after the diff --git
\* line, gives a record with the status modified
C13_Witness ==
    /\ BranchDiffParsed
    /\ Len(files) = 1 /\ files[1].filename = <<"n", ".", "js">>
    /\ StatusByMarkers(1) = "added"
    /\ files[1].status = "modified"

(***************************************************************************)
(* Errors of the commands (under SpecCommands).                            *)
(***************************************************************************)
ConfigurationError ==
    \/ command = "pr" /\ ~options.token
    \/ command = "action" /\ (~options.token \/ ~options.eventPath)

\* C14: a command that lacks its token, or the action command its event
\* path, reports the error and ends with code 1 as its first step: no call
\* to the hosted-repo client, to the analyzer or to postReview is made
\* before or after, and nothing is tried again.
C14_ConfigurationErrorEndsAtOnce ==
    ConfigurationError =>
        /\ pc \in {"start", "action", "exited"}
        /\ calls = <<>> /\ llmCalls = <<>> /\ reviews = <<>> /\ posted = NotYet
        /\ pc = "exited" => (exitCode.code = 1 /\ "error" \in DOMAIN exitCode)

C14_Witness ==
    /\ command = "action" /\ options.token /\ ~options.eventPath
    /\ pc = "exited" /\ exitCode.code = 1
    /\ exitCode.error = <<"Error: GitHub event file not found">>

Analyses == SelectSeq(calls, LAMBDA c : c.op = "analyzeCode")

\* C20: in the three commands the files are analyzed one at a time in the
\* order of the list: review i is the review of file i, one analysis was made
\* for each review, a step adds at most one review, and the aggregate is
\* made only when every file has its review, after which no file is analyzed.
C20_OneFileAtATimeInOrder ==
    /\ [](/\ Len(reviews) <= Len(files)
          /\ Len(Analyses) = Len(reviews)
          /\ \A i \in 1..Len(reviews) :
                /\ reviews[i].filename = files[i].filename
                /\ reviews[i].changes = files[i]
                /\ Analyses[i].file = files[i].filename
          /\ overallReview # NotYet => Len(reviews) = Len(files))
    /\ [][/\ Len(reviews') <= Len(reviews) + 1
          /\ SubSeq(reviews', 1, Len(reviews)) = reviews
          /\ overallReview # NotYet => reviews' = reviews]_vars

\* the local command after two different files of a branch diff were analyzed
C20_Witness ==
    /\ command = "local" /\ overallReview # NotYet
    /\ Len(files) = 2 /\ Len(reviews) = 2
    /\ files[1].filename # files[2].filename
    /\ reviews[2].filename = files[2].filename

(***************************************************************************)
(* The review the pr command posts (under Spec).                           *)
(***************************************************************************)
\* C16: the pr command posts at most one review, none with --no-post, and
\* only when every file was analyzed and the formatted result printed; the
\* event is APPROVE exactly with --approval and COMMENT otherwise, never
\* REQUEST_CHANGES, whatever was found.
C16_PostedOnceAtTheEnd ==
    /\ Cardinality({k \in 1..Len(calls) : calls[k].op = "postReview"}) <= 1
    /\ ~options.post => \A k \in 1..Len(calls) : calls[k].op # "postReview"
    /\ \A k \in 1..Len(calls) :
          calls[k].op = "postReview" =>
              /\ Len(Analyses) = Len(files) /\ Len(reviews) = Len(files)
              /\ \A j \in 1..Len(calls) : calls[j].op = "analyzeCode" => j < k
              /\ formatted # Undefined
    /\ posted # NotYet =>
          /\ options.post
          /\ calls[Len(calls)] = [op |-> "postReview", ok |-> TRUE]
          /\ posted.event = IF options.approval THEN "APPROVE" ELSE "COMMENT"
          /\ posted.event # "REQUEST_CHANGES"

\* an approval posted for a pull request with issues
C16_Witness ==
    /\ command = "pr" /\ posted # NotYet
    /\ posted.event = "APPROVE"
    /\ overallReview.stats.totalIssues > 0


\* the text holds the part, as a substring
Holds(text, part) ==
    \E i \in 1..(Len(text) - Len(part) + 1) : SubSeq(text, i, i + Len(part) - 1) = part

HasIssues(review) == LengthOrZero(review.analysis, "issues") > 0

NarrativeLines ==
    LET text == overallReview.summary
        breaks == SelectSeq([i \in 1..Len(text) |-> i], LAMBDA i : text[i] = "\n")
        Bound(k) == IF k = 0 THEN 0 ELSE IF k > Len(breaks) THEN Len(text) + 1 ELSE breaks[k]
    IN  [k \in 1..(Len(breaks) + 1) |-> SubSeq(text, Bound(k - 1) + 1, Bound(k) - 1)]

\* the lines of the breakdown: those after the line Issues by File and
\* before the closing rule, the empty ones left out
BreakdownLines ==
    LET at == {n \in 1..Len(NarrativeLines) :
                  NarrativeLines[n] = <<"#", "#", "#", " ", "Issues by File">>}
    IN  IF at = {} THEN <<>>
        ELSE SelectSeq(SubSeq(NarrativeLines, (CHOOSE n \in at : TRUE) + 1, Len(NarrativeLines) - 2),
                       LAMBDA line : line # <<>>)

\* what the breakdown is to hold: for each review with an issue, in the order
\* of the reviews, its file name in bold and then a line for each issue
BreakdownExpected ==
    Concat([n \in 1..Len(reviews) |->
              IF HasIssues(reviews[n])
              THEN << <<"*", "*">> \o reviews[n].filename \o <<"*", "*">> >>
                   \o [k \in 1..Len(reviews[n].analysis.issues) |->
                          <<"-", " ">> \o reviews[n].analysis.issues[k].description]
              ELSE <<>>])

\* C18: the narrative of generateOverallReview holds the security warning
\* line exactly when the security count is above zero, and its breakdown
\* holds exactly the files with at least one issue, in the order of the
\* reviews, each followed by the descriptions of its issues in order; a file
\* without issues is not in the breakdown.
C18_WarningAndBreakdown ==
    (Aggregated /\ "securityIssues" \in DOMAIN overallReview.stats) =>
        /\ (\E n \in 1..Len(NarrativeLines) :
               NarrativeLines[n] =
                 <<"(warning sign)", " ", "*", "*", "Security", "*", "*", ":", " Found ">>
                 \o NumStr(overallReview.stats.securityIssues)
                 \o <<" potential security concern(s). Please review carefully.">>)
           <=> overallReview.stats.securityIssues > 0
        /\ includes(overallReview.summary, "(warning sign)")
           <=> \E n \in 1..Len(reviews) : LengthOrZero(reviews[n].analysis, "security") > 0
        /\ BreakdownLines = BreakdownExpected
        /\ \A n \in 1..Len(reviews) :
              ~HasIssues(reviews[n]) /\ (\A o \in 1..Len(reviews) :
                                            HasIssues(reviews[o]) =>
                                                reviews[o].filename # reviews[n].filename)
              => \A k \in 1..Len(BreakdownLines) : ~Holds(BreakdownLines[k], reviews[n].filename)

\* a file without issues before a file with a security issue
C18_Witness ==
    /\ Aggregated /\ "securityIssues" \in DOMAIN overallReview.stats
    /\ Len(reviews) = 2 /\ ~HasIssues(reviews[1]) /\ HasIssues(reviews[2])
    /\ overallReview.stats.securityIssues > 0
    /\ Len(BreakdownLines) = 1 + Len(reviews[2].analysis.issues)


(***************************************************************************)
(* scanFile and the pattern registry (under SpecScan).                     *)
(***************************************************************************)
RECURSIVE FilesUnder(_, _)
\* the files of a directory of the scan targets, under their full paths
FilesUnder(dir, items) ==
    IF items = <<>> THEN {}
    ELSE LET item == Head(items)
             fullPath == dir \o <<"/">> \o item.name
         IN  (CASE item.kind = "dir" -> FilesUnder(fullPath, item.items)
                [] item.kind = "file" -> {[name |-> fullPath, content |-> item.content]}
                [] OTHER -> {})
             \cup FilesUnder(dir, Tail(items))

FilesOfTargets ==
    UNION {CASE t.kind = "file" -> {[name |-> t.name, content |-> t.content]}
             [] t.kind = "dir" -> FilesUnder(t.name, t.items)
             [] OTHER -> {} : t \in ScanTargets}

ContentOf(path) == (CHOOSE f \in FilesOfTargets : f.name = path).content

\* one entry for each pair (line, rule) whose pattern matches the line, by line
\* and then by the position of the rule in the registry
PairsMatching(path) ==
    LET lines == split(ContentOf(path), "\n")
    IN  Concat([n \in 1..Len(lines) |->
                   Concat([r \in 1..Len(SECURITY_PATTERNS) |->
                              IF test(SECURITY_PATTERNS[r].pattern, lines[n], TRUE)
                              THEN <<[file |-> path, line |-> n,
                                      issue |-> SECURITY_PATTERNS[r].name,
                                      severity |-> SECURITY_PATTERNS[r].severity]>>
                              ELSE <<>>])])

\* the findings in the order scanFile returned them: before the sort, or after
\* it when the filter took a copy
InScanOrder == ~ScanEnded \/ HasSeverity(options)

\* C19: the findings of every file scanned are exactly one finding for each pair
\* (line, rule) whose pattern matches the line, ordered by line number and within
\* a line by the position of the rule in SECURITY_PATTERNS, each with the name
\* and the severity of the rule and the 1-based line number; a file scanned again,
\* or after any other file, gets the same findings, and lastIndex of every
\* pattern stays 0.
C19_OneFindingPerMatchingPair ==
    /\ \A r \in 1..Len(SECURITY_PATTERNS) : lastIndexOf[r] = 0
    /\ InScanOrder =>
           [k \in 1..Len(allIssues) |->
               [file |-> allIssues[k].file, line |-> allIssues[k].line,
                issue |-> allIssues[k].issue, severity |-> allIssues[k].severity]]
           = Concat([f \in 1..Len(filesScanned) |-> PairsMatching(filesScanned[f])])

\* C19 witness: the same file was scanned twice, and one of its lines has two
\* findings of different rules.
C19_Witness ==
    /\ pc = "scan"
    /\ Len(filesScanned) = 2 /\ filesScanned[1] = filesScanned[2]
    /\ \E i, j \in 1..Len(allIssues) :
           /\ i < j /\ j <= Len(allIssues) \div 2
           /\ allIssues[i].line = allIssues[j].line
           /\ allIssues[i].issue # allIssues[j].issue


(***************************************************************************)
(* The stages and the outputs of the stages before them (under             *)
(* SpecCommands).                                                          *)
(***************************************************************************)
\* a file was analyzed in the step
FileAnalyzed == Len(reviews') = Len(reviews) + 1

\* an overall review was generated in the step
OverallGenerated == overallReview = NotYet /\ overallReview' # NotYet

\* a rendering was produced in the step, by format or by formatForGitHub
Rendered == (formatted = Undefined /\ formatted' # Undefined) \/ (posted = NotYet /\ posted' # NotYet)

\* C21: no stage modifies the output of an earlier stage: analyzing a file
\* leaves the changed-file records and the reviews made before unchanged, and the
\* new review carries the record as it was; generating the overall review leaves
\* the changed-file records and every review unchanged; rendering leaves the
\* reviews unchanged and, once the overall review exists, the overall review too.
C21_NoStageModifiesEarlierOutput ==
    [][ /\ FileAnalyzed =>
              /\ files' = files
              /\ SubSeq(reviews', 1, Len(reviews)) = reviews
              /\ reviews'[Len(reviews')].changes = files[Len(reviews')]
        /\ OverallGenerated => files' = files /\ reviews' = reviews
        /\ Rendered =>
              /\ files' = files /\ reviews' = reviews
              /\ overallReview # NotYet => overallReview' = overallReview ]_vars

\* C21 witness: two files were analyzed, one of them with an issue, the overall
\* review was generated, and the renderings were printed and posted.
C21_Witness ==
    /\ Len(reviews) = 2 /\ Len(files) = 2
    /\ \E k \in 1..2 : LengthOrZero(reviews[k].analysis, "issues") > 0
    /\ LengthOrZero(reviews[1].analysis, "issues") = 0
    /\ overallReview # NotYet /\ formatted # Undefined /\ posted # NotYet


(***************************************************************************)
(* The summary of a file review (under SpecScanner).                       *)
(***************************************************************************)
LooksGood == <<"Code looks good! No major issues detected.">>

\* the issues of the review of severity high or critical
SevereIssues ==
    SelectSeq(analysis.issues, LAMBDA i : "severity" \in DOMAIN i /\ i.severity \in {"high", "critical"})

MarkupFree(text) ==
    \A j \in 1..Len(text) :
        /\ text[j] \notin {"#", "*", "[", "]", "(backtick)"}
        /\ text[j] = "-" => (j > 1 /\ text[j - 1] \notin Whitespace)

\* the reviews whose summary is a text
WithSummary ==
    {n \in 1..Len(reviews) :
        /\ "summary" \in DOMAIN reviews[n].analysis
        /\ reviews[n].analysis.summary # Undefined
        /\ reviews[n].analysis.summary # <<>>}

\* C23 as stated: stripMarkdown removes only markup, so a summary without markup,
\* a hyphen inside its text included, is in the plain-text rendering as it is.
C23_TextWithoutMarkupIsKept ==
    (Formatted /\ IsTextName(options.format)) =>
        \A n \in WithSummary :
            MarkupFree(reviews[n].analysis.summary) =>
                Holds(formatted, trim(reviews[n].analysis.summary))

\* C23 witness: the summary of a review reads 'high-priority' and the plain-text
\* rendering reads 'highpriority'.
C23_Witness ==
    /\ Formatted /\ IsTextName(options.format)
    /\ \E n \in WithSummary :
           /\ MarkupFree(reviews[n].analysis.summary)
           /\ Holds(reviews[n].analysis.summary, <<" high", "-", "priority issue(s) that should be addressed.">>)
    /\ Holds(formatted, <<" high", "priority issue(s) that should be addressed.">>)
    /\ ~Holds(formatted, <<" high", "-">>)


(***************************************************************************)
(* The empty catch block check (under SpecScanner).                        *)
(***************************************************************************)
\* the lines that got the 'Empty catch block' suggestion
EmptyCatchLines ==
    {analysis.suggestions[k].line :
        k \in {x \in 1..Len(analysis.suggestions) : analysis.suggestions[x].type = "best-practice"}}

\* line n + 1 exists and is a closing brace and nothing else but white space
NextLineIsBrace(n) == n + 1 <= Len(LinesAnalyzed) /\ trim(LinesAnalyzed[n + 1]) = <<"}">>

\* C24 as stated: line i gets the 'Empty catch block' suggestion if and only if
\* it contains 'catch' and line i+1 exists and consists solely of a closing
\* brace apart from white space; a 'catch' on the last line gets none, and so
\* does one whose next line holds other code besides a closing brace.
C24_EmptyCatchIffNextLineIsBrace ==
    (Analyzed /\ HasPatch) =>
        \A n \in 1..Len(LinesAnalyzed) :
            n \in EmptyCatchLines <=> (includes(LinesAnalyzed[n], "catch") /\ NextLineIsBrace(n))

\* C24 witness: the line after the catch is '} else {', and the catch got the
\* suggestion.
C24_Witness ==
    /\ Analyzed /\ HasPatch
    /\ Len(LinesAnalyzed) = 2
    /\ LinesAnalyzed[2] = <<"}", " ", "else", " ", "{">>
    /\ includes(LinesAnalyzed[1], "catch")
    /\ 1 \in EmptyCatchLines


(***************************************************************************)
(* The filter and the sort of the scan command (under SpecScan).           *)
(***************************************************************************)
\* the findings of the files scanned, in scan order: by file, then by line, then
\* by the position of the rule
FindingsInScanOrder == Concat([f \in 1..Len(filesScanned) |-> PairsMatching(filesScanned[f])])

\* the findings reported, without their snippets
Reported ==
    [k \in 1..Len(filteredIssues) |->
        [file |-> filteredIssues[k].file, line |-> filteredIssues[k].line,
         issue |-> filteredIssues[k].issue, severity |-> filteredIssues[k].severity]]

\* the severity is the value of the option, compared without regard to case
NamedByOption(severity) == toLowerCase(options.severity) = toLowerCase(<<severity>>)

\* the findings of scan order that pass Kept, by severity from CRITICAL to LOW,
\* those of one severity in scan order
BySeverityThenScanOrder(Kept(_)) ==
    Concat([rank \in 1..4 |->
               SelectSeq(FindingsInScanOrder,
                         LAMBDA i : i.severity = <<"CRITICAL", "HIGH", "MEDIUM", "LOW">>[rank]
                                    /\ Kept(i.severity))])

SumOf(counts) == counts.CRITICAL + counts.HIGH + counts.MEDIUM + counts.LOW

\* C25 as stated: the reported findings are the findings of the scanned files
\* whose severity equals the value of --severity without regard to case, all of
\* them when the option is absent, from CRITICAL to LOW and in scan order within
\* a severity.
C25_FilterBySeverityOption ==
    ScanEnded =>
        LET Kept(severity) == options.severity = Undefined \/ NamedByOption(severity)
        IN  Reported = BySeverityThenScanOrder(Kept)

\* C25 amended: the same, an empty value of --severity being the same as an
\* absent one; the counts per severity of the printed summary and of the saved
\* report add up to the number of reported findings.
C25_FilterSortAndCounts ==
    ScanEnded =>
        LET Kept(severity) == ~HasSeverity(options) \/ NamedByOption(severity)
        IN  /\ Reported = BySeverityThenScanOrder(Kept)
            /\ Len(filteredIssues) > 0 =>
                   /\ SumOf(printed.bySeverity) = Len(filteredIssues)
                   /\ printed.issues = filteredIssues
            /\ options.output =>
                   /\ savedReport.issues = filteredIssues
                   /\ SumOf(savedReport.summary) = Len(filteredIssues)

\* C25 witness: --severity High kept two or more findings of two files and left
\* others out, and the report was saved.
C25_Witness ==
    /\ ScanEnded
    /\ options.severity = <<"High">> /\ options.output
    /\ Len(filteredIssues) >= 2 /\ Len(allIssues) > Len(filteredIssues)
    /\ filteredIssues[1].file # filteredIssues[Len(filteredIssues)].file
    /\ savedReport.summary.HIGH = Len(filteredIssues)


(***************************************************************************)
(* The action command and the event payload (under SpecCommands).          *)
(***************************************************************************)
\* the action command has what it needs to read the event payload
PayloadRead ==
    /\ command = "action"
    /\ options.token /\ options.eventPath
    /\ "unreadable" \notin DOMAIN options.event

PostReviewCalls == {k \in 1..Len(calls) : calls[k].op = "postReview"}

\* the run ended and no call failed
EndedWithoutError == pc = "exited" /\ "error" \notin DOMAIN exitCode

\* C26: in the action command an event payload without a pull_request ends the
\* process with code 0 and nothing is fetched, analyzed or posted; a payload
\* with a pull_request gives, when no call fails, exactly one posted review,
\* for the number read from the payload and with the event COMMENT, posted
\* only after every file was analyzed and the overall review generated.
C26_ActionSkipsOrPostsOnce ==
    PayloadRead =>
        IF "pull_request" \notin DOMAIN options.event
        THEN /\ calls = <<>> /\ llmCalls = <<>> /\ reviews = <<>> /\ files = <<>>
             /\ overallReview = NotYet /\ posted = NotYet
             /\ pc \in {"action", "exited"}
             /\ pc = "exited" => exitCode = [code |-> 0]
        ELSE /\ Cardinality(PostReviewCalls) <= 1
             /\ \A k \in PostReviewCalls :
                   /\ k = Len(calls)
                   /\ Len(Analyses) = Len(files) /\ Len(reviews) = Len(files)
                   /\ overallReview # NotYet
             /\ posted # NotYet =>
                   /\ calls[Len(calls)] = [op |-> "postReview", ok |-> TRUE]
                   /\ posted.pull_number = options.event.pull_request.number
                   /\ posted.event = "COMMENT"
                   /\ posted.body = formatForGitHub(overallReview)
             /\ EndedWithoutError =>
                   /\ posted # NotYet
                   /\ exitCode = [code |-> 0]

\* C26 witness: the payload names pull request 12, its two files were analyzed
\* without an issue, and the review was posted for number 12.
C26_Witness ==
    /\ PayloadRead /\ EndedWithoutError
    /\ "pull_request" \in DOMAIN options.event
    /\ Len(files) = 2 /\ Len(reviews) = 2
    /\ posted # NotYet /\ posted.pull_number = 12
    /\ overallReview.stats.totalIssues = 0

=============================================================================
